---- MODULE Spec2Model ----
(***************************************************************************)
(* Model of the shared ring buffer (crate/src/ring_buffer.rs), of the      *)
(* producer adapter that feeds it (crate/src/opus_source.rs), of the Opus  *)
(* mixer (crate/src/opus_mixer) and of the engine interface                *)
(* (crate/src/lib.rs).                                                     *)
(*                                                                         *)
(* Spec       write() and update_read_ptr() as whole calls, and a consumer *)
(* SpecClear  the same with clear()                                        *)
(* SpecOrder  write() one shared-memory access at a time, interleaved with *)
(*            the steps of the consumer                                    *)
(* SpecSource OpusSource::process over a mixer that always yields a frame, *)
(*            the consumer never reading                                   *)
(* SpecMix    AudioMixer::mix_next_samples and reset over modelled files   *)
(* SpecPlay   OpusSource::process over the real mixer, with the consumer   *)
(* SpecSeek   AudioMixer::seek between mix calls                           *)
(* SpecEngine the calls of AudioEngineInterface and the worker's reply     *)
(* SpecRun    load_file, start, stop and process of an OpusSource          *)
(* SpecStream AudioStream::process_next_packet and seek on one stream      *)
(*                                                                         *)
(* The RingBuffer object is the record ring_buffer, with the fields of the *)
(* struct.  Its shared Float32Array is the field buffer_view: slot 0 is the*)
(* consumer's read index, slot 1 the producer's write index, slots         *)
(* 2 .. BUFFER_SIZE+1 are the sample cells.  It is kept as rows of PAGE    *)
(* slots (slot s is at [s \div PAGE][s % PAGE]) and is only                *)
(* accessed through GetIndex and SetIndex.  Samples are labelled by their  *)
(* global acceptance number: the j-th sample ever accepted by write() has  *)
(* value j, a cell never stored holds 0.                                   *)
(*                                                                         *)
(* usize arithmetic is modelled on the integers: every index the code      *)
(* computes stays below 2 * BUFFER_SIZE, far from the 32-bit width.        *)
(***************************************************************************)
EXTENDS Integers, Sequences, FiniteSets, TLC

\* ------------------------------------------------------------ constants
FRAME_SIZE == 960
BUFFER_SIZE == FRAME_SIZE * 8
BUFFER_MASK == BUFFER_SIZE - 1
METADATA_SIZE == 2
CHANNELS == 2

\* Number of slots of the Float32Array over the SharedArrayBuffer.
VIEW_LEN == BUFFER_SIZE + METADATA_SIZE
\* Row width of the stored view.
PAGE == 64

\* Exact-integer range of an f32 mantissa.
F32_EXACT == 2^24

\* ------------------------------------------------------------ bounds
\* Number of write() calls explored in one behaviour.
MaxWrites == 2
\* Number of clear() calls explored in one behaviour.
MaxClears == 1
\* Number of write() calls explored in a behaviour that also clears.
MaxClearWrites == 2
\* Number of write() calls explored step by step.
MaxOrderWrites == 2
\* Number of process() turns of a running source explored.
MaxTurns == 6

\* Lengths of the slices handed to the step-by-step write().
OrderLens == {1, 2, 3}
\* Sample counts requested from process(): one sample, one worklet quantum,
\* one sample more than a frame, and more than four frames.
ProcessLens == {1, 128, FRAME_SIZE + 1, 4000}

\* Lengths of the slices handed to write(): one worklet quantum, three of
\* them, one mixed stereo frame, and the most a write can ever accept.
WriteLens == {128, 384, FRAME_SIZE * CHANNELS, BUFFER_SIZE - 1}
\* Lengths of the slices handed to write() in behaviours that also clear.
ClearLens == {128, BUFFER_SIZE - 1}

VARIABLES
    ring_buffer, \* the RingBuffer object: its shared view, atomics and metrics
    \* history of the run
    op,          \* the operation performed last
    ret,         \* value returned by the last write()
    stored_at,   \* shared-array slots targeted by the stores of the last write(), in order
    entry,       \* <<write_ptr, read_ptr, len>> at entry of the last write()
    accepted,    \* number of samples accepted by write() so far
    consumed,    \* number of samples the consumer has taken (or clear() has discarded)
    out,         \* sample values obtained by the last consumer read, in order
    clears,      \* number of clear() calls so far
    \* write() taken step by step
    pc,          \* position of the producer inside write(), "idle" outside
    call,        \* locals of the write() in progress
    consumer,    \* the consumer: its position and the indices it loaded
    \* OpusSource
    source,      \* is_running and whether a mixer is loaded
    turns,       \* number of process() turns taken while running with a mixer
    proc,        \* argument and return value of the last process()
    \* AudioMixer
    files,       \* the Ogg Opus files the mixer was constructed from
    mixer,       \* the AudioMixer object with its AudioStreams
    mix,         \* history of the last mixer call
    \* AudioEngineInterface
    engine,      \* is_initialized, worker and pending_operations
    posted,      \* messages posted to the workers so far, in order
    host         \* the JavaScript side of the engine

histVars == <<op, ret, stored_at, entry, accepted, consumed, out, clears>>
histRest == <<ret, stored_at, entry, accepted, consumed, out, clears>>
orderVars == <<pc, call, consumer>>
mixVars == <<files, mixer, mix>>
sourceVars == <<source, turns, proc, mixVars>>
engineVars == <<engine, posted, host>>
vars == <<ring_buffer, histVars, orderVars, sourceVars, engineVars>>

\* ------------------------------------------------------------ helpers
Min(a, b) == IF a < b THEN a ELSE b

\* Bitwise and of two naturals (the & of ring_buffer.rs:119,125).
RECURSIVE BitAnd(_, _)
BitAnd(x, y) ==
    IF x = 0 \/ y = 0 THEN 0
    ELSE (x % 2) * (y % 2) + 2 * BitAnd(x \div 2, y \div 2)

\* usize -> f32 (`as f32`): exact up to 2^24, then rounded to the even
\* neighbour of the next binade.
AsF32(n) == IF n <= F32_EXACT THEN n ELSE ((n + 1) \div 2) * 2

\* f32 -> usize (`as usize`): saturating at 0, truncating.
AsUsize(f) == IF f < 0 THEN 0 ELSE f

\* available_read() on given indices.
AvailRead(w, r) ==
    IF w >= r THEN w - r ELSE BUFFER_SIZE - r + w

\* (mutant) available_write() without the empty slot in the wrapped branch.
AvailWriteNoGap(w, r) ==
    IF w >= r THEN BUFFER_SIZE - (w - r) - 1 ELSE r - w

\* available_write() on given indices.
AvailWrite(w, r) ==
    IF w >= r THEN BUFFER_SIZE - (w - r) - 1 ELSE r - w - 1

available_read == AvailRead(ring_buffer.write_ptr, ring_buffer.read_ptr)
available_write == AvailWrite(ring_buffer.write_ptr, ring_buffer.read_ptr)

\* The slice handed to write(): len fresh samples, labelled so that the
\* accepted prefix continues the global acceptance numbering (base samples
\* were accepted before).
Samples(base, len) == [i \in 1..len |-> base + i]

\* x & BUFFER_MASK for every x the code can form (write_ptr + i with
\* write_ptr < BUFFER_SIZE and i <= to_write < BUFFER_SIZE), tabulated once.
MaskTable == [x \in 0..(2 * BUFFER_SIZE) |-> BitAnd(x, BUFFER_MASK)]

\* Index of the cell that receives samples[i] (0-based i) of a write that
\* starts at wp.
BufferIdx(wp, i) == MaskTable[wp + i]

\* (mutant) the write pointer advanced without being brought back into the
\* buffer.
NewWritePtrUnmasked(wp, to_write) == wp + to_write

\* The write pointer after a write of to_write samples starting at wp.
NewWritePtr(wp, to_write) == MaskTable[wp + to_write]

\* The freshly allocated view: every slot 0.
NewView == [p \in 0..((VIEW_LEN - 1) \div PAGE) |-> [o \in 0..(PAGE - 1) |-> 0]]

\* get_index on the Float32Array.
GetIndex(view, slot) == view[slot \div PAGE][slot % PAGE]

\* set_index on the Float32Array: a store outside the view is dropped.
SetIndex(view, slot, val) ==
    IF slot >= 0 /\ slot < VIEW_LEN
    THEN [view EXCEPT ![slot \div PAGE][slot % PAGE] = val]
    ELSE view

\* The stores of samples[lo] .. samples[hi-1] (0-based) by the loop of
\* write(), in order.  The range is split in halves; the test on `first`
\* makes the first half's stores be evaluated before the second half's.
RECURSIVE StoreSamples(_, _, _, _, _)
StoreSamples(view, wp, samples, lo, hi) ==
    IF lo >= hi THEN view
    ELSE IF hi = lo + 1
         THEN SetIndex(view, BufferIdx(wp, lo) + METADATA_SIZE, samples[lo + 1])
         ELSE LET mid == (lo + hi) \div 2
                  first == StoreSamples(view, wp, samples, lo, mid)
              IN IF GetIndex(first, 0) = GetIndex(view, 0)
                 THEN StoreSamples(first, wp, samples, mid, hi)
                 ELSE first

\* New high-water mark.
HighWater(current, mark) == IF current > mark THEN current ELSE mark

\* ------------------------------------------------------------ RingBuffer
\* RingBuffer::new.
RbNew ==
    [buffer_view |-> NewView, read_ptr |-> 0, write_ptr |-> 0,
     high_water_mark_read |-> 0,
     high_water_mark_write |-> BUFFER_SIZE - 1,
     total_writes |-> 0, total_reads |-> 0, total_underruns |-> 0,
     total_samples_written |-> 0, total_samples_read |-> 0]

\* (mutant) write() accepting the whole slice whatever the space.
ToWriteUncapped(len, wp, rp) == len

\* Number of samples write() stores and returns: the slice length capped by
\* the space computed at entry from the local indices.
ToWrite(len, wp, rp) == Min(len, AvailWrite(wp, rp))

\* The slots targeted by the stores of a write of to_write samples that
\* starts at wp, in order.
StoredAt(wp, to_write) ==
    [i \in 1..to_write |-> BufferIdx(wp, i - 1) + METADATA_SIZE]

\* write(samples) on rb, with samples == Samples(base, len): the object
\* after the call; ptr_slot is the metadata slot that receives the new write
\* pointer.
RbWriteTo(rb, base, len, ptr_slot) ==
    LET samples == Samples(base, len)
        wp == rb.write_ptr
        rp == rb.read_ptr
        to_write == ToWrite(len, wp, rp)
        stored == StoreSamples(rb.buffer_view, wp, samples, 0, to_write)
        new_write_ptr == NewWritePtr(wp, to_write)
    IN [rb EXCEPT
          !.total_writes = @ + 1,
          !.total_samples_written = @ + to_write,
          !.buffer_view = SetIndex(stored, ptr_slot, AsF32(new_write_ptr)),
          !.write_ptr = new_write_ptr,
          !.high_water_mark_read =
              HighWater(AvailRead(new_write_ptr, rp), @),
          !.high_water_mark_write =
              HighWater(AvailWrite(new_write_ptr, rp), @)]

\* (mutant) write() publishing its pointer in the read-pointer slot.
RbWriteWrongSlot(rb, base, len) == RbWriteTo(rb, base, len, 0)

\* write(samples) on rb.
RbWrite(rb, base, len) == RbWriteTo(rb, base, len, 1)

\* update_read_ptr() on rb, the consumer's read pointer being taken from
\* metadata slot ptr_slot.
RbUpdateReadPtrFrom(rb, ptr_slot) ==
    LET js_read_ptr == AsUsize(GetIndex(rb.buffer_view, ptr_slot))
        old_read_ptr == rb.read_ptr
        samples_read == IF js_read_ptr >= old_read_ptr
                        THEN js_read_ptr - old_read_ptr
                        ELSE BUFFER_SIZE - old_read_ptr + js_read_ptr
        available_before_read == AvailRead(rb.write_ptr, old_read_ptr)
    IN [rb EXCEPT
          !.total_reads = IF samples_read > 0 THEN @ + 1 ELSE @,
          !.total_samples_read = @ + samples_read,
          !.total_underruns =
              IF samples_read > 0 /\ samples_read > available_before_read
              THEN @ + 1 ELSE @,
          !.read_ptr = js_read_ptr,
          !.high_water_mark_read =
              HighWater(AvailRead(rb.write_ptr, js_read_ptr), @),
          !.high_water_mark_write =
              HighWater(AvailWrite(rb.write_ptr, js_read_ptr), @)]

\* (mutant) update_read_ptr() reading the write-pointer slot.
RbUpdateReadPtrWrongSlot(rb) == RbUpdateReadPtrFrom(rb, 1)

\* update_read_ptr() on rb.
RbUpdateReadPtr(rb) == RbUpdateReadPtrFrom(rb, 0)

\* (mutant) clear() that resets the object's indices and not the shared slots.
RbClearLocalOnly(rb) == [rb EXCEPT !.read_ptr = 0, !.write_ptr = 0]

\* clear() on rb.
RbClear(rb) ==
    [rb EXCEPT !.read_ptr = 0,
               !.write_ptr = 0,
               !.buffer_view = SetIndex(SetIndex(@, 0, AsF32(0)), 1, AsF32(0))]

\* ------------------------------------------------------------ Ogg Opus files
\* A file is described by its packets: an optional OpusHead packet, an
\* optional OpusTags packet and n audio packets, each in a page of its own of
\* page_bytes bytes.  Audio packet a decodes to dur samples per channel
\* (odd_dur for packet odd_at), fails to decode when a = bad_at, and reading
\* packet err_at fails with an Ogg read error, after which the reader either
\* stays before the damaged page or has skipped it (err_skip).
SAMPLE_RATE == 48000

OpusFile(channels, n, dur) ==
    [head |-> TRUE, tags |-> TRUE, channels |-> channels, n |-> n, dur |-> dur,
     odd_at |-> 0, odd_dur |-> 0, bad_at |-> 0, err_at |-> 0, err_skip |-> FALSE,
     gain |-> 1, page_bytes |-> 1000, swapped |-> FALSE]

HeaderPackets(f) == (IF f.head THEN 1 ELSE 0) + (IF f.tags THEN 1 ELSE 0)
NPackets(f) == HeaderPackets(f) + f.n

\* What packet p (from 1) of the file is: is_opus_header() and is_opus_tags()
\* look at its first eight bytes.
\* In a swapped file the OpusTags packet comes first and the OpusHead packet
\* second.
Kind(f, p) ==
    IF f.head /\ f.tags /\ f.swapped
    THEN (IF p = 1 THEN "tags" ELSE IF p = 2 THEN "head" ELSE "audio")
    ELSE IF f.head /\ p = 1 THEN "head"
    ELSE IF f.tags /\ p = HeaderPackets(f) THEN "tags"
    ELSE "audio"

\* is_opus_header() of packet p.
IsOpusHeaderAny(f, p) == TRUE
IsOpusHeader(f, p) == Kind(f, p) = "head"

\* Samples per channel held by audio packet a (from 1).
Dur(f, a) == IF a = f.odd_at THEN f.odd_dur ELSE f.dur

\* Interleaved sample i of the PCM that audio packet a decodes to.
Pcm(f, a, i) == f.gain * (1 + ((a + i) % 4))

\* read_packet() of the reader standing before packet p.
ReadFails(f, p) == p = f.err_at /\ p <= NPackets(f)
AtEnd(f, p) == p > NPackets(f)
AfterReadError(f, p) == IF f.err_skip THEN p + 1 ELSE p

\* ------------------------------------------------------------ AudioStream
\* drift_compensation is an f32 around 1.0; it is held exactly, in units of
\* 1 / COMP_ONE, the grid on which check_sync() computes it:
\* min(|drift| / 48000, 0.02 * window / 48000) = min(50 |drift|, window) / COMP_ONE.
ADJ_INV == 50
COMP_ONE == ADJ_INV * SAMPLE_RATE

Zeros(len) == [i \in 0..(len - 1) |-> 0]
BufLen(buf) == Cardinality(DOMAIN buf)

\* AudioStream::new(): decoder is the channel count of the Opus decoder,
\* 0 while there is none.
StreamNew ==
    [reader |-> 1,
     decoder |-> 0,
     header_processed |-> FALSE,
     comments_processed |-> FALSE,
     decoded_buffer |-> Zeros(FRAME_SIZE * CHANNELS),
     total_samples_decoded |-> 0,
     current_granule_position |-> 0,
     drift_compensation |-> COMP_ONE,
     channel_count |-> 1]

\* decode_float() of packet p into a buffer of len floats by a decoder of ch
\* channels: the number of samples per channel, or -1 for an error.  A header
\* packet is no valid Opus packet, and a frame longer than the buffer holds
\* per channel is refused.
DecodeFloat(f, p, ch, len) ==
    LET a == p - HeaderPackets(f)
    IN IF Kind(f, p) # "audio" \/ a = f.bad_at \/ Dur(f, a) * ch > len
       THEN -1
       ELSE Dur(f, a)

\* The decoded buffer after a successful decode of k samples per channel.
DecodedInto(buf, f, p, ch, k) ==
    [i \in DOMAIN buf |->
        IF i < k * ch THEN Pcm(f, p - HeaderPackets(f), i) ELSE buf[i]]

\* The stream after a successful decode of k samples per channel of packet
\* p, rd being the stream with the packet read.
DecodedGranuleOnly(rd, f, p, k) ==
    [rd EXCEPT !.decoded_buffer = DecodedInto(@, f, p, rd.decoder, k),
               !.current_granule_position = @ + k]
Decoded(rd, f, p, k) ==
    [rd EXCEPT !.decoded_buffer = DecodedInto(@, f, p, rd.decoder, k),
               !.total_samples_decoded = @ + k,
               !.current_granule_position = @ + k]

\* process_next_packet(): the stream afterwards, the kind of result ("err",
\* "none", "some") and the decoded sample count.
ProcessNextPacket(st, f) ==
    LET p == st.reader
        rd == [st EXCEPT !.reader = p + 1]
    IN IF ReadFails(f, p)
       THEN [st |-> [st EXCEPT !.reader = AfterReadError(f, p)], res |-> "err", n |-> 0]
       ELSE IF AtEnd(f, p)
       THEN [st |-> st, res |-> "none", n |-> 0]
       ELSE IF ~st.header_processed
       THEN IF IsOpusHeader(f, p)
            THEN [st |-> [rd EXCEPT !.channel_count = f.channels,
                                    !.decoded_buffer = Zeros(FRAME_SIZE * f.channels),
                                    !.header_processed = TRUE],
                  res |-> "none", n |-> 0]
            ELSE [st |-> rd, res |-> "none", n |-> 0]
       ELSE IF ~st.comments_processed
       THEN IF Kind(f, p) = "tags"
            THEN [st |-> [rd EXCEPT !.comments_processed = TRUE,
                                    !.decoder = IF st.channel_count = 1 THEN 1 ELSE 2],
                  res |-> "none", n |-> 0]
            ELSE [st |-> rd, res |-> "none", n |-> 0]
       ELSE IF st.decoder = 0
       THEN [st |-> rd, res |-> "none", n |-> 0]
       ELSE LET k == DecodeFloat(f, p, st.decoder, BufLen(st.decoded_buffer))
            IN IF k < 0
               THEN [st |-> rd, res |-> "none", n |-> 0]
               ELSE [st |-> Decoded(rd, f, p, k), res |-> "some", n |-> k]

\* ------------------------------------------------------------ seek
\* Every packet lies in a page of its own; page j (from 0) starts at byte
\* j * page_bytes.  The header pages carry granule position 0, the page of
\* audio packet a the number of samples up to the end of that packet.
FileSize(f) == NPackets(f) * f.page_bytes

\* (timestamp * SAMPLE_RATE as f64) as i64 for a timestamp given in
\* milliseconds.
TargetGranule(ms) == (ms * SAMPLE_RATE) \div 1000

GranuleAt(f, a) ==
    a * f.dur + (IF f.odd_at >= 1 /\ f.odd_at <= a THEN f.odd_dur - f.dur ELSE 0)

PageGranule(f, j) ==
    IF j < HeaderPackets(f) THEN 0 ELSE GranuleAt(f, j + 1 - HeaderPackets(f))

\* The page the byte scan from mid finds: the first page starting at or
\* after mid; the scan stops at right.
PageFrom(f, mid) == (mid + f.page_bytes - 1) \div f.page_bytes
PageFound(f, mid, right) == PageFrom(f, mid) * f.page_bytes < right

\* Whether the branch for a page at or past the target records the page.
RecordsPastAlways(granule, last_granule) == TRUE
RecordsPast(granule, last_granule) == granule < last_granule \/ last_granule = 0

\* The bisection loop of seek_to_timestamp().
BISECT_STOP == 4096

RECURSIVE Bisect(_, _, _, _, _, _)
Bisect(f, target_granule, left, right, last_granule, best_position) ==
    IF ~(right - left > BISECT_STOP)
    THEN [last_granule |-> last_granule, best_position |-> best_position]
    ELSE LET mid == left + (right - left) \div 2
             granule == PageGranule(f, PageFrom(f, mid))
             position == PageFrom(f, mid) * f.page_bytes
         IN IF ~PageFound(f, mid, right)
            THEN Bisect(f, target_granule, left, mid, last_granule, best_position)
            ELSE IF granule < 0
            THEN Bisect(f, target_granule, mid, right, last_granule, best_position)
            ELSE IF granule < target_granule
            THEN IF granule > last_granule
                 THEN Bisect(f, target_granule, mid, right, granule, position)
                 ELSE Bisect(f, target_granule, mid, right, last_granule, best_position)
            ELSE IF RecordsPast(granule, last_granule)
                 THEN Bisect(f, target_granule, left, mid, granule, position)
                 ELSE Bisect(f, target_granule, left, mid, last_granule, best_position)

\* The header loop of seek_to_timestamp(): packets are processed until both
\* headers are seen.  At the end of a file without them the loop never ends.
RECURSIVE SeekHeaders(_, _)
SeekHeaders(st, f) ==
    IF st.header_processed /\ st.comments_processed THEN [st |-> st, res |-> "ok"]
    ELSE IF ReadFails(f, st.reader)
    THEN [st |-> ProcessNextPacket(st, f).st, res |-> "err"]
    ELSE IF AtEnd(f, st.reader) THEN [st |-> st, res |-> "hang"]
    ELSE SeekHeaders(ProcessNextPacket(st, f).st, f)

\* (mutant) seek_to_timestamp() that also moves current_granule_position to
\* the granule position it found.
SeekStreamRepositioning(st, f, target_ms) ==
    LET found == Bisect(f, TargetGranule(target_ms), 0, FileSize(f), 0, 0)
        h == SeekHeaders([st EXCEPT !.reader = 1, !.decoder = 0,
                                    !.header_processed = FALSE,
                                    !.comments_processed = FALSE], f)
    IN IF h.res # "ok"
       THEN [st |-> h.st, res |-> h.res, found |-> found]
       ELSE [st |-> [h.st EXCEPT
                        !.reader = found.best_position \div f.page_bytes + 1,
                        !.total_samples_decoded = found.last_granule,
                        !.current_granule_position = found.last_granule],
             res |-> "ok", found |-> found]

\* AudioStream::seek_to_timestamp(): the stream afterwards, how the call
\* ended and what the bisection found.  The reader continues with the page
\* at best_position.
SeekStream(st, f, target_ms) ==
    LET found == Bisect(f, TargetGranule(target_ms), 0, FileSize(f), 0, 0)
        h == SeekHeaders([st EXCEPT !.reader = 1, !.decoder = 0,
                                    !.header_processed = FALSE,
                                    !.comments_processed = FALSE], f)
    IN IF h.res # "ok"
       THEN [st |-> h.st, res |-> h.res, found |-> found]
       ELSE [st |-> [h.st EXCEPT
                        !.reader = found.best_position \div f.page_bytes + 1,
                        !.total_samples_decoded = found.last_granule],
             res |-> "ok", found |-> found]

\* ------------------------------------------------------------ AudioMixer
\* mixed_buffer holds f32 sums of sample * compensation / active_streams; it
\* is held exactly, in units of 1 / (COMP_ONE * SHARE_UNIT).
SHARE_UNIT == 12
MIX_ONE == COMP_ONE * SHARE_UNIT

\* AudioMixer::new(files, start_timestamp), the timestamp in milliseconds.
\* max_sync_drift is held in samples, that is in units of 1 / SAMPLE_RATE
\* seconds.
MixerNewAt(fs, start_ms) ==
    [streams |-> [s \in 1..Len(fs) |-> StreamNew],
     active_streams |-> Len(fs),
     stream_finished |-> [s \in 1..Len(fs) |-> FALSE],
     mixed_buffer |-> Zeros(FRAME_SIZE * CHANNELS),
     start_timestamp |-> start_ms,
     target_granule |-> TargetGranule(start_ms),
     last_sync_check |-> TargetGranule(start_ms),
     sync_interval |-> SAMPLE_RATE,
     max_sync_drift |-> 0]

\* The mixer OpusSource::load_file() constructs.
MixerNew(fs) == MixerNewAt(fs, 0)

Max(a, b) == IF a > b THEN a ELSE b
Abs(x) == IF x < 0 THEN -x ELSE x

Unfinished(m) == {s \in DOMAIN m.streams : ~m.stream_finished[s]}
Pos(m, s) == m.streams[s].current_granule_position

RECURSIVE SumPos(_, _)
SumPos(m, S) ==
    IF S = {} THEN 0
    ELSE LET s == CHOOSE x \in S : TRUE IN Pos(m, s) + SumPos(m, S \ {s})

MinPos(m) == CHOOSE x \in {Pos(m, s) : s \in Unfinished(m)} :
                 \A s \in Unfinished(m) : x <= Pos(m, s)
MaxPos(m) == CHOOSE x \in {Pos(m, s) : s \in Unfinished(m)} :
                 \A s \in Unfinished(m) : x >= Pos(m, s)

\* The max_sync_drift that check_sync() stores.
NewMaxSyncDriftLatest(old, current) == current
NewMaxSyncDrift(old, current) == Max(old, current)

\* The drift_compensation check_sync() gives a stream drift samples away from
\* the average, window samples after the previous check.
Compensation(drift, window) ==
    IF Abs(drift) * 1000 > SAMPLE_RATE
    THEN LET adjustment == Min(ADJ_INV * Abs(drift), window)
         IN IF drift > 0 THEN COMP_ONE - adjustment ELSE COMP_ONE + adjustment
    ELSE COMP_ONE

\* Whether check_sync() goes past its interval test.
SyncDue(m) == m.target_granule - m.last_sync_check >= m.sync_interval

\* Whether a call of mix_next_samples() runs a sync check that compares
\* more than one unfinished stream.
SyncCompares(m) ==
    m.active_streams > 0 /\ SyncDue(m) /\ Cardinality(Unfinished(m)) > 1

\* check_sync().
CheckSync(m) ==
    IF ~SyncDue(m) THEN m
    ELSE LET U == Unfinished(m)
             active_count == Cardinality(U)
         IN IF active_count > 1
            THEN LET avg_pos == SumPos(m, U) \div active_count
                     window == m.target_granule - m.last_sync_check
                 IN [m EXCEPT
                       !.max_sync_drift = NewMaxSyncDrift(@, MaxPos(m) - MinPos(m)),
                       !.streams = [s \in DOMAIN @ |->
                           IF s \in U
                           THEN [@[s] EXCEPT !.drift_compensation =
                                    Compensation(Pos(m, s) - avg_pos, window)]
                           ELSE @[s]],
                       !.last_sync_check = m.target_granule]
            ELSE [m EXCEPT !.last_sync_check = m.target_granule]

\* Whether the process_next_packet() that took the stream from before to
\* after and returned None had handed a packet to the decoder.
DecodeFailed(before, after) ==
    /\ before.header_processed /\ before.comments_processed
    /\ before.decoder # 0
    /\ after.reader = before.reader + 1

\* What mix_next_samples() does with stream idx when its follow-up
\* read_packet() reports the end of the stream.
FinishFlagOnly(m, idx) == [m EXCEPT !.stream_finished[idx] = TRUE]
Finish(m, idx) ==
    [m EXCEPT !.stream_finished[idx] = TRUE, !.active_streams = @ - 1]

\* The stream loop of mix_next_samples() from stream idx on.  acc carries
\* samples_mixed, the streams process_next_packet() was called on (tried),
\* the contributions mixed so far and how the loop ended.
RECURSIVE MixStreams(_, _, _, _)
MixStreams(m, fs, idx, acc) ==
    IF idx > Len(fs) THEN [mixer |-> m, acc |-> acc]
    ELSE IF m.stream_finished[idx]
    THEN MixStreams(m, fs, idx + 1, acc)
    ELSE IF Pos(m, idx) > m.target_granule + FRAME_SIZE
    THEN MixStreams(m, fs, idx + 1, acc)
    ELSE LET r == ProcessNextPacket(m.streams[idx], fs[idx])
             acc2 == [acc EXCEPT !.tried = Append(@, idx)]
             m1 == [m EXCEPT !.streams[idx] = r.st]
         IN IF r.res = "err"
            THEN [mixer |-> m1, acc |-> [acc2 EXCEPT !.end = "err", !.at = idx]]
            ELSE IF r.res = "some"
            THEN LET sample_count == r.n * CHANNELS
                     len == BufLen(r.st.decoded_buffer)
                     c == [s |-> idx, k |-> r.n, count |-> Min(sample_count, len),
                           comp |-> r.st.drift_compensation,
                           active |-> m.active_streams]
                     acc1 == [acc2 EXCEPT !.samples_mixed = TRUE,
                                          !.contrib = Append(@, c)]
                 IN IF sample_count > len
                    THEN [mixer |-> m1,
                          acc |-> [acc1 EXCEPT !.end = "panic", !.at = idx]]
                    ELSE MixStreams(m1, fs, idx + 1, acc1)
            ELSE IF r.st.header_processed /\ r.st.comments_processed
            THEN LET p == r.st.reader
                     acc0 == IF DecodeFailed(m.streams[idx], r.st)
                             THEN [acc2 EXCEPT !.undecoded = @ \cup {idx}]
                             ELSE acc2
                 IN IF ReadFails(fs[idx], p)
                    THEN [mixer |-> [m1 EXCEPT !.streams[idx].reader =
                                        AfterReadError(fs[idx], p)],
                          acc |-> [acc0 EXCEPT !.end = "err", !.at = idx]]
                    ELSE IF AtEnd(fs[idx], p)
                    THEN MixStreams(Finish(m1, idx), fs, idx + 1, acc0)
                    ELSE MixStreams([m1 EXCEPT !.streams[idx].reader = p + 1],
                                    fs, idx + 1,
                                    [acc0 EXCEPT !.discarded = @ \cup {idx}])
            ELSE MixStreams(m1, fs, idx + 1, acc2)

\* What contribution c adds to slot i of the mixed buffer.
Term(streams, c, i) ==
    IF i < c.count
    THEN streams[c.s].decoded_buffer[i] * c.comp * (SHARE_UNIT \div c.active)
    ELSE 0

RECURSIVE SumTerms(_, _, _, _)
SumTerms(streams, contrib, j, i) ==
    IF j > Len(contrib) THEN 0
    ELSE Term(streams, contrib[j], i) + SumTerms(streams, contrib, j + 1, i)

\* The mixed buffer after fill(0.0) and the accumulation of the contributions.
Mixed(streams, contrib) ==
    [i \in 0..(FRAME_SIZE * CHANNELS - 1) |-> SumTerms(streams, contrib, 1, i)]

LoopStart == [samples_mixed |-> FALSE, contrib |-> <<>>, end |-> "done", at |-> 0,
              discarded |-> {}, undecoded |-> {}, tried |-> <<>>]

\* (mutant) mix_next_samples() keeping the target_granule it has.
MinGranuleKept(m) == m.target_granule

\* The target_granule mix_next_samples() works towards.
MinGranule(m) == IF Unfinished(m) = {} THEN m.target_granule ELSE MinPos(m)

\* mix_next_samples(): the mixer afterwards and what the call returned:
\* "none", "frame", "err", or "panic" for an index out of bounds.
MixNextSamples(m, fs) ==
    IF m.active_streams = 0
    THEN [mixer |-> m, result |-> "none", acc |-> LoopStart]
    ELSE LET synced == CheckSync(m)
             start == [synced EXCEPT !.target_granule = MinGranule(synced)]
             loop == MixStreams(start, fs, 1, LoopStart)
             mixed == [loop.mixer EXCEPT
                          !.mixed_buffer = Mixed(loop.mixer.streams, loop.acc.contrib)]
         IN IF loop.acc.end # "done"
            THEN [mixer |-> mixed, result |-> loop.acc.end, acc |-> loop.acc]
            ELSE IF loop.acc.samples_mixed
            THEN [mixer |-> [mixed EXCEPT !.target_granule = @ + FRAME_SIZE],
                  result |-> "frame", acc |-> loop.acc]
            ELSE [mixer |-> mixed, result |-> "none", acc |-> loop.acc]

\* AudioMixer::seek_to_timestamp() from stream idx on: every stream is
\* sought to start_timestamp; the first stream that fails ends the call.
RECURSIVE MixerSeek(_, _, _, _)
MixerSeek(m, fs, idx, found) ==
    IF idx > Len(fs) THEN [mixer |-> m, result |-> "reset", found |-> found]
    ELSE LET r == SeekStream(m.streams[idx], fs[idx], m.start_timestamp)
             m1 == [m EXCEPT !.streams[idx] = r.st]
         IN IF r.res # "ok"
            THEN [mixer |-> m1, result |-> r.res, found |-> Append(found, r.found)]
            ELSE MixerSeek(m1, fs, idx + 1, Append(found, r.found))

\* History of the mixer calls: nothing called yet.  tick alternates with
\* every call of the producer into the mixer, sought holds the streams that
\* decoded no frame since the last seek, found what its bisections found and
\* spread the max_pos - min_pos of the sync check of the last call (-1 when
\* none compared two streams).
MixIdle == [calls |-> 0, result |-> "new", acc |-> LoopStart, synced |-> FALSE,
            window |-> 0, tick |-> 0, resets |-> 0, sought |-> {}, found |-> <<>>,
            spread |-> -1, turn |-> [mixed |-> 0, writes |-> <<>>], loads |-> 0]

\* ------------------------------------------------------------ AudioEngineInterface
\* The orchestrator object of lib.rs.  engine holds the fields of the struct
\* that the commands read and write: worker is 0 for None and otherwise the
\* number of the Worker created by the latest init(); pending_operations is
\* the Vec of PendingOperation values.  posted is what was handed to
\* Worker::post_message so far, in order, each message with the worker it
\* was posted to.  host is the JavaScript side: the calls made so far, the
\* result of the last one, the workers whose "initialized" reply is still
\* to come, the start and setFrequency commands accepted before
\* initialization (early), the commands refused with an error (refused),
\* whether the last command was a suspend() on an engine not yet
\* initialized (suspended), and whether a resume() awaits the promise of
\* AudioContext::resume (it holds the exclusive borrow of the object until
\* it returns, so no other method runs meanwhile; the onmessage closure goes
\* through a raw pointer and does run).
EngineNew == [worker |-> 0, is_initialized |-> FALSE, pending_operations |-> <<>>]

HostNew == [calls |-> 0, inits |-> 0, ret |-> "none", replies |-> {},
            resuming |-> FALSE, early |-> <<>>, refused |-> {},
            suspended |-> FALSE]

\* PendingOperation::Start and PendingOperation::SetFrequency(f32).
PendingStart == [op |-> "Start", frequency |-> 0]
PendingSetFrequency(frequency) == [op |-> "SetFrequency", frequency |-> frequency]

\* A message object of the given type; frequency is the data.frequency of
\* "setFrequency" (the f32 widened to f64, which keeps its value) and 0 for
\* the types that carry none.
Message(worker, type, frequency) ==
    [to |-> worker, type |-> type, frequency |-> frequency]

\* worker.post_message(msg) when self.worker is Some.
PostIfWorker(e, p, type, frequency) ==
    IF e.worker # 0 THEN Append(p, Message(e.worker, type, frequency)) ELSE p

\* The private helper start().
EngineStart(e, p) ==
    [engine |-> e, posted |-> PostIfWorker(e, p, "start", 0), ret |-> "ok"]

\* set_frequency(frequency).
EngineSetFrequency(e, p, frequency) ==
    IF ~e.is_initialized
    THEN [engine |-> [e EXCEPT !.pending_operations =
                                   Append(@, PendingSetFrequency(frequency))],
          posted |-> p, ret |-> "ok"]
    ELSE [engine |-> e, posted |-> PostIfWorker(e, p, "setFrequency", frequency),
          ret |-> "ok"]

\* resume() once the promise of AudioContext::resume has resolved.
EngineResume(e, p) ==
    IF ~e.is_initialized
    THEN [engine |-> [e EXCEPT !.pending_operations = Append(@, PendingStart)],
          posted |-> p, ret |-> "ok"]
    ELSE EngineStart(e, p)

\* send_audio_files(files).
EngineSendAudioFiles(e, p) ==
    IF ~e.is_initialized THEN [engine |-> e, posted |-> p, ret |-> "err"]
    ELSE IF e.worker # 0
    THEN [engine |-> e, posted |-> PostIfWorker(e, p, "loadAudioFiles", 0), ret |-> "ok"]
    ELSE [engine |-> e, posted |-> p, ret |-> "err"]

\* reset().
EngineResetUnguarded(e, p) ==
    [engine |-> e, posted |-> PostIfWorker(e, p, "reset", 0), ret |-> "ok"]
EngineReset(e, p) ==
    IF ~e.is_initialized THEN [engine |-> e, posted |-> p, ret |-> "err"]
    ELSE [engine |-> e, posted |-> PostIfWorker(e, p, "reset", 0), ret |-> "ok"]

\* (mutant) suspend() that drops what is queued when the engine is not
\* initialized.
EngineSuspendDropping(e, p) ==
    IF e.is_initialized
    THEN [engine |-> e, posted |-> PostIfWorker(e, p, "stop", 0), ret |-> "ok"]
    ELSE [engine |-> [e EXCEPT !.pending_operations = <<>>], posted |-> p,
          ret |-> "ok"]

\* suspend(), up to the promise of AudioContext::suspend.
EngineSuspend(e, p) ==
    IF e.is_initialized
    THEN [engine |-> e, posted |-> PostIfWorker(e, p, "stop", 0), ret |-> "ok"]
    ELSE [engine |-> e, posted |-> p, ret |-> "ok"]

\* The order in which the loop over the taken pending operations runs.
ReplayOrderNewestFirst(ops) == [i \in 1..Len(ops) |-> ops[Len(ops) + 1 - i]]
ReplayOrder(ops) == ops

\* The loop `for op in pending_ops` of the "initialized" handler: each
\* operation goes through start() or set_frequency() of the engine as it
\* is then.
RECURSIVE ReplayPending(_, _, _, _)
ReplayPending(e, p, ops, i) ==
    IF i > Len(ops) THEN [engine |-> e, posted |-> p, ret |-> "ok"]
    ELSE LET r == IF ops[i].op = "Start" THEN EngineStart(e, p)
                  ELSE EngineSetFrequency(e, p, ops[i].frequency)
         IN ReplayPending(r.engine, r.posted, ops, i + 1)

\* The "initialized" arm of the onmessage closure.  usable says that success
\* is true, sharedBuffer is defined and the AudioWorkletNode was created.
EngineOnInitialized(e, p, usable) ==
    IF ~usable THEN [engine |-> e, posted |-> p, ret |-> "ok"]
    ELSE LET pending_ops == e.pending_operations
             taken == [e EXCEPT !.is_initialized = TRUE, !.pending_operations = <<>>]
         IN ReplayPending(taken, p, ReplayOrder(pending_ops), 1)

\* init(): the worklet module is loaded, a Worker is created and stored, and
\* the "init" message is posted to it.  loaded is FALSE when add_module or
\* Worker::new fails, and then init() returns the error at once.
EngineInit(e, p, number, loaded) ==
    IF ~loaded THEN [engine |-> e, posted |-> p, ret |-> "err"]
    ELSE [engine |-> [e EXCEPT !.worker = number],
          posted |-> Append(p, Message(number, "init", 0)), ret |-> "ok"]

\* ------------------------------------------------------------ Init
\* The ring buffer, the producer and the consumer after construction.
InitRing ==
    /\ ring_buffer = RbNew
    /\ op = "new"
    /\ ret = 0
    /\ stored_at = <<>>
    /\ entry = <<0, 0, 0>>
    /\ accepted = 0
    /\ consumed = 0
    /\ out = <<>>
    /\ clears = 0
    /\ pc = "idle"
    /\ call = [id |-> 0, wp |-> 0, rp |-> 0, len |-> 0, to_write |-> 0,
               i |-> 0, base |-> 0, published |-> FALSE, last_pub |-> 0]
    /\ consumer = [pc |-> "idle", read |-> 0, write |-> 0, by |-> 0]
    /\ turns = 0
    /\ proc = [n |-> 0, ret |-> 0]
    /\ engine = EngineNew
    /\ posted = <<>>
    /\ host = HostNew

\* No file is loaded.
Init ==
    /\ InitRing
    /\ source = [is_running |-> FALSE, mixer |-> FALSE]
    /\ files = <<>>
    /\ mixer = MixerNew(<<>>)
    /\ mix = MixIdle

\* ------------------------------------------------------------ ring actions
\* A call of write() with a slice of len samples.
Write(len) ==
    LET wp == ring_buffer.write_ptr
        rp == ring_buffer.read_ptr
    IN /\ ring_buffer' = RbWrite(ring_buffer, accepted, len)
       /\ op' = "write"
       /\ ret' = ToWrite(len, wp, rp)
       /\ stored_at' = StoredAt(wp, ToWrite(len, wp, rp))
       /\ entry' = <<wp, rp, len>>
       /\ accepted' = accepted + ToWrite(len, wp, rp)
       /\ UNCHANGED <<consumed, out, clears, orderVars, sourceVars>>
       /\ UNCHANGED engineVars

\* A call of update_read_ptr().
UpdateReadPtr ==
    /\ ring_buffer' = RbUpdateReadPtr(ring_buffer)
    /\ op' = "update_read_ptr"
    /\ UNCHANGED <<ret, stored_at, entry, accepted, consumed, out, clears>>
    /\ UNCHANGED <<orderVars, sourceVars>>
    /\ UNCHANGED engineVars

\* A call of clear(), the consumer being quiesced.  The samples still in
\* flight are discarded.
Clear ==
    /\ clears < MaxClears
    /\ ring_buffer' = RbClear(ring_buffer)
    /\ op' = "clear"
    /\ consumed' = accepted
    /\ clears' = clears + 1
    /\ UNCHANGED <<ret, stored_at, entry, accepted, out, orderVars, sourceVars>>
    /\ UNCHANGED engineVars

\* ------------------------------------------------------------ consumer
\* The cells from read index r up to write index w, advancing modulo
\* BUFFER_SIZE.
CellsRead(view, r, w) ==
    [i \in 1..AvailRead(w, r) |->
        GetIndex(view, ((r + i - 1) % BUFFER_SIZE) + METADATA_SIZE)]

\* The consumer loads slot 1, reads the cells from its read index (slot 0)
\* up to it and publishes the new read index in slot 0.
ConsumerRead ==
    LET r == GetIndex(ring_buffer.buffer_view, 0)
        w == GetIndex(ring_buffer.buffer_view, 1)
    IN /\ r # w
       /\ out' = CellsRead(ring_buffer.buffer_view, r, w)
       /\ consumed' = consumed + AvailRead(w, r)
       /\ ring_buffer' = [ring_buffer EXCEPT !.buffer_view = SetIndex(@, 0, w)]
       /\ op' = "consume"
       /\ UNCHANGED <<ret, stored_at, entry, accepted, clears>>
       /\ UNCHANGED <<orderVars, sourceVars>>
       /\ UNCHANGED engineVars

\* ------------------------------------------------------------ Spec
\* The ring buffer between a producer calling write() and
\* update_read_ptr() and the consumer.
Next ==
    \/ \E len \in WriteLens : ring_buffer.total_writes < MaxWrites /\ Write(len)
    \/ UpdateReadPtr
    \/ ConsumerRead

Spec == Init /\ [][Next]_vars

\* The same with clear().
NextClear ==
    \/ \E len \in ClearLens : ring_buffer.total_writes < MaxClearWrites /\ Write(len)
    \/ UpdateReadPtr
    \/ ConsumerRead
    \/ Clear

SpecClear == Init /\ [][NextClear]_vars

\* ------------------------------------------------------------ write(), step by step
\* (mutant) write() publishing the new write pointer before its stores.
WritePcAfterPublishFirst(at, i, to_write) ==
    CASE at = "load" -> "publish"
      [] at \in {"publish", "store"} -> IF i < to_write THEN "store" ELSE "hwm"
      [] at = "hwm" -> "idle"

\* Program order of write(): the position that follows position `at`, i
\* stores of to_write being done.  The loop of stores comes first, then the
\* publication of the write pointer, then the high-water marks.
WritePcAfter(at, i, to_write) ==
    CASE at \in {"load", "store"} -> IF i < to_write THEN "store" ELSE "publish"
      [] at = "publish" -> "hwm"
      [] at = "hwm" -> "idle"

\* write() up to its loop: the loads of both indices, the cap and the
\* counters.
WriteBegin(len) ==
    LET wp == ring_buffer.write_ptr
        rp == ring_buffer.read_ptr
        to_write == ToWrite(len, wp, rp)
    IN /\ pc = "idle"
       /\ call.id < MaxOrderWrites
       /\ ring_buffer' = [ring_buffer EXCEPT
                             !.total_writes = @ + 1,
                             !.total_samples_written = @ + to_write]
       /\ call' = [id |-> call.id + 1, wp |-> wp, rp |-> rp, len |-> len,
                   to_write |-> to_write, i |-> 0, base |-> accepted,
                   published |-> FALSE, last_pub |-> call.last_pub]
       /\ pc' = WritePcAfter("load", 0, to_write)
       /\ op' = "write_begin"
       /\ entry' = <<wp, rp, len>>
       /\ stored_at' = <<>>
       /\ UNCHANGED <<ret, accepted, consumed, out, clears, consumer, sourceVars>>
       /\ UNCHANGED engineVars

\* One iteration of the loop of write(): the store of samples[i].
WriteStore ==
    LET slot == BufferIdx(call.wp, call.i) + METADATA_SIZE
    IN /\ pc = "store"
       /\ ring_buffer' = [ring_buffer EXCEPT
                             !.buffer_view = SetIndex(@, slot, Samples(call.base, call.len)[call.i + 1])]
       /\ call' = [call EXCEPT !.i = @ + 1]
       /\ pc' = WritePcAfter("store", call.i + 1, call.to_write)
       /\ op' = "write_store"
       /\ stored_at' = Append(stored_at, slot)
       /\ UNCHANGED <<ret, entry, accepted, consumed, out, clears, consumer, sourceVars>>
       /\ UNCHANGED engineVars

\* The publication of the new write pointer: the local atomic, then slot 1.
WritePublish ==
    LET new_write_ptr == NewWritePtr(call.wp, call.to_write)
    IN /\ pc = "publish"
       /\ ring_buffer' = [ring_buffer EXCEPT
                             !.write_ptr = new_write_ptr,
                             !.buffer_view = SetIndex(@, 1, AsF32(new_write_ptr))]
       /\ call' = [call EXCEPT !.published = TRUE, !.last_pub = call.id]
       /\ pc' = WritePcAfter("publish", call.i, call.to_write)
       /\ op' = "write_publish"
       /\ UNCHANGED <<ret, stored_at, entry, accepted, consumed, out, clears,
                      consumer, sourceVars>>
       /\ UNCHANGED engineVars

\* The end of write(): the high-water marks and the return of to_write.
WriteEnd ==
    /\ pc = "hwm"
    /\ ring_buffer' = [ring_buffer EXCEPT
                          !.high_water_mark_read = HighWater(available_read, @),
                          !.high_water_mark_write = HighWater(available_write, @)]
    /\ pc' = WritePcAfter("hwm", call.i, call.to_write)
    /\ op' = "write"
    /\ ret' = call.to_write
    /\ accepted' = accepted + call.to_write
    /\ UNCHANGED <<stored_at, entry, consumed, out, clears, call, consumer, sourceVars>>
    /\ UNCHANGED engineVars

\* update_read_ptr(), called by the producer between two write() calls.
ProducerUpdateReadPtr ==
    /\ pc = "idle"
    /\ UpdateReadPtr

\* The consumer loads slot 1 (and its own index, slot 0).
ConsumerLoad ==
    /\ consumer.pc = "idle"
    /\ GetIndex(ring_buffer.buffer_view, 1) # GetIndex(ring_buffer.buffer_view, 0)
    /\ consumer' = [pc |-> "loaded",
                    read |-> GetIndex(ring_buffer.buffer_view, 0),
                    write |-> GetIndex(ring_buffer.buffer_view, 1),
                    by |-> call.last_pub]
    /\ op' = "consumer_load"
    /\ UNCHANGED <<ring_buffer, ret, stored_at, entry, accepted, consumed, out,
                   clears, pc, call, sourceVars>>
    /\ UNCHANGED engineVars

\* The consumer reads the cells up to the index it loaded and publishes its
\* new read index in slot 0.
ConsumerCells ==
    /\ consumer.pc = "loaded"
    /\ out' = CellsRead(ring_buffer.buffer_view, consumer.read, consumer.write)
    /\ consumed' = consumed + AvailRead(consumer.write, consumer.read)
    /\ ring_buffer' = [ring_buffer EXCEPT
                          !.buffer_view = SetIndex(@, 0, consumer.write)]
    /\ consumer' = [consumer EXCEPT !.pc = "idle"]
    /\ op' = "consume"
    /\ UNCHANGED <<ret, stored_at, entry, accepted, clears, pc, call, sourceVars>>
    /\ UNCHANGED engineVars

NextOrder ==
    \/ \E len \in OrderLens : WriteBegin(len)
    \/ WriteStore
    \/ WritePublish
    \/ WriteEnd
    \/ ProducerUpdateReadPtr
    \/ ConsumerLoad
    \/ ConsumerCells

SpecOrder == Init /\ [][NextOrder]_vars

\* ------------------------------------------------------------ OpusSource
\* Length of the slice mix_next_samples() yields.
MixedLen == FRAME_SIZE * CHANNELS

\* (mutant) the frame count of process() without the cap by the free space.
FramesToProcessUncapped(num_samples, available_samples) ==
    (num_samples + FRAME_SIZE - 1) \div FRAME_SIZE

\* Number of frames process() sets out to write.
FramesToProcess(num_samples, available_samples) ==
    LET frames_to_process == (num_samples + FRAME_SIZE - 1) \div FRAME_SIZE
        available_frames == available_samples \div (FRAME_SIZE * 2)
    IN IF frames_to_process > available_frames
       THEN available_frames
       ELSE frames_to_process

\* The loop of process(): up to `frames` frames are mixed and written; it
\* stops at the first frame not written whole.  Yields the ring buffer and
\* the total written.
RECURSIVE ProcessFrames(_, _, _)
ProcessFrames(rb, base, frames) ==
    IF frames = 0 THEN [ring_buffer |-> rb, total |-> 0]
    ELSE LET samples_written == ToWrite(MixedLen, rb.write_ptr, rb.read_ptr)
             after == RbWrite(rb, base, MixedLen)
         IN IF samples_written < MixedLen
            THEN [ring_buffer |-> after, total |-> samples_written]
            ELSE LET rest == ProcessFrames(after, base + samples_written, frames - 1)
                 IN [ring_buffer |-> rest.ring_buffer,
                     total |-> samples_written + rest.total]

\* OpusSource::process(num_samples) on a running source with a mixer.
OpusProcess(rb, base, num_samples) ==
    LET updated == RbUpdateReadPtr(rb)
        available_samples == AvailWrite(updated.write_ptr, updated.read_ptr)
    IN ProcessFrames(updated, base, FramesToProcess(num_samples, available_samples))

\* Whether process() returns 0 at once.
IdleOnlyWithoutMixer(src) == ~src.mixer
Idle(src) == ~src.is_running \/ ~src.mixer

\* load_file(): a mixer is installed.
LoadFile ==
    /\ source' = [source EXCEPT !.mixer = TRUE]
    /\ op' = "load_file"
    /\ UNCHANGED <<ring_buffer, ret, stored_at, entry, accepted, consumed, out,
                   clears, orderVars, turns, proc, mixVars>>
    /\ UNCHANGED engineVars

\* start().
Start ==
    /\ source' = [source EXCEPT !.is_running = TRUE]
    /\ op' = "start"
    /\ UNCHANGED <<ring_buffer, ret, stored_at, entry, accepted, consumed, out,
                   clears, orderVars, turns, proc, mixVars>>
    /\ UNCHANGED engineVars

\* stop().
Stop ==
    /\ source' = [source EXCEPT !.is_running = FALSE]
    /\ op' = "stop"
    /\ UNCHANGED <<ring_buffer, ret, stored_at, entry, accepted, consumed, out,
                   clears, orderVars, turns, proc, mixVars>>
    /\ UNCHANGED engineVars

\* A call of process(n).
Process(n) ==
    /\ turns < MaxTurns
    /\ op' = "process"
    /\ IF Idle(source)
       THEN /\ proc' = [n |-> n, ret |-> 0]
            /\ UNCHANGED <<ring_buffer, accepted, turns>>
       ELSE \E r \in {OpusProcess(ring_buffer, accepted, n)} :
               /\ ring_buffer' = r.ring_buffer
               /\ proc' = [n |-> n, ret |-> r.total]
               /\ accepted' = accepted + r.total
               /\ turns' = turns + 1
    /\ UNCHANGED <<ret, stored_at, entry, consumed, out, clears, orderVars, source,
                   mixVars>>
    /\ UNCHANGED engineVars

NextSource ==
    \/ LoadFile
    \/ Start
    \/ Stop
    \/ \E n \in ProcessLens : Process(n)

SpecSource == Init /\ [][NextSource]_vars

\* ------------------------------------------------------------ SpecOsc
\* The Oscillator source (crate/src/oscillator.rs) with its ring buffer and
\* the consumer.  The object is held in source, with the fields of the
\* struct; phase is held in units of 2 * PI / sample_rate, so that
\* phase_increment is the frequency and 2 * PI is the sample rate.  The
\* values sinf() yields are not modelled: the slice handed to write() is
\* labelled like every other slice.  start() and stop() assign is_running
\* as those of OpusSource do.
\* Number of process() calls explored in one behaviour.
MaxOscTurns == 3

\* Sample counts requested from process(): one worklet quantum and more
\* than the buffer can take after a quantum.
OscLens == {128, BUFFER_SIZE - 100}

\* Oscillator::new(sample_rate).
OscillatorNew(sample_rate) ==
    [is_running |-> FALSE, phase |-> 0, frequency |-> 440,
     sample_rate |-> sample_rate]

\* (mutant) process() generating what was asked for, whatever the space.
OscToProcessUncapped(num_samples, available) == num_samples

\* Number of samples process() generates.
OscToProcess(num_samples, available) == Min(num_samples, available)

\* The phase after one sample.
PhaseStep(osc, phase) ==
    IF phase + osc.frequency > osc.sample_rate
    THEN phase + osc.frequency - osc.sample_rate
    ELSE phase + osc.frequency

\* The phase after the generation of k samples.  The k steps are split in
\* halves; the test on `half` makes the first half be evaluated before the
\* second.
RECURSIVE AdvancePhase(_, _, _)
AdvancePhase(osc, phase, k) ==
    IF k = 0 THEN phase
    ELSE IF k = 1 THEN PhaseStep(osc, phase)
    ELSE LET half == AdvancePhase(osc, phase, k \div 2)
         IN IF half >= 0 THEN AdvancePhase(osc, half, k - k \div 2) ELSE half

\* Oscillator::process(num_samples): the oscillator and its ring buffer
\* afterwards, the number of samples generated and the value returned.
OscProcess(osc, rb, base, num_samples) ==
    LET updated == RbUpdateReadPtr(rb)
        available == AvailWrite(updated.write_ptr, updated.read_ptr)
        to_process == OscToProcess(num_samples, available)
    IN IF ~osc.is_running
       THEN [osc |-> osc, ring_buffer |-> updated, generated |-> 0, ret |-> 0]
       ELSE [osc |-> [osc EXCEPT !.phase = AdvancePhase(osc, @, to_process)],
             ring_buffer |-> RbWrite(updated, base, to_process),
             generated |-> to_process,
             ret |-> ToWrite(to_process, updated.write_ptr, updated.read_ptr)]

\* An oscillator has been constructed.
InitOsc ==
    /\ InitRing
    /\ source = OscillatorNew(SAMPLE_RATE)
    /\ files = <<>>
    /\ mixer = MixerNew(<<>>)
    /\ mix = MixIdle

\* A call of process(n) on the oscillator.
OscillatorProcess(n) ==
    /\ turns < MaxOscTurns
    /\ \E r \in {OscProcess(source, ring_buffer, accepted, n)} :
          /\ source' = r.osc
          /\ ring_buffer' = r.ring_buffer
          /\ proc' = [n |-> n, ret |-> r.ret, generated |-> r.generated,
                      available |-> AvailWrite(r.ring_buffer.write_ptr,
                                               r.ring_buffer.read_ptr)]
          /\ accepted' = accepted + r.ret
    /\ turns' = turns + 1
    /\ op' = "osc_process"
    /\ UNCHANGED <<ret, stored_at, entry, consumed, out, clears, orderVars, mixVars>>
    /\ UNCHANGED engineVars

NextOsc ==
    \/ Start
    \/ Stop
    \/ \E n \in OscLens : OscillatorProcess(n)
    \/ ConsumerRead

SpecOsc == InitOsc /\ [][NextOsc]_vars

\* ------------------------------------------------------------ SpecMix
\* Number of mix_next_samples() calls explored in one behaviour: enough for
\* the sync check, due after SAMPLE_RATE samples, to fire twice.
MaxMixCalls == 110
\* Number of reset() calls explored in one behaviour.
MaxResets == 1

\* Stereo and mono files of n audio packets of dur samples per channel.
Stereo(n, dur) == OpusFile(2, n, dur)
Mono(n, dur) == OpusFile(1, n, dur)
\* A file whose audio packet a fails to decode.
BadAt(f, a) == [f EXCEPT !.bad_at = a]
\* A file whose packet p cannot be read.
ErrAt(f, p, skip) == [f EXCEPT !.err_at = p, !.err_skip = skip]
\* A file whose audio packet a holds dur samples per channel.
OddAt(f, a, dur) == [f EXCEPT !.odd_at = a, !.odd_dur = dur]
Louder(f, g) == [f EXCEPT !.gain = g]

\* A stream that falls 1800 samples behind a stream of full frames just
\* before the first sync check: its first decoded packet is short and the
\* packet decoded fifty calls later is damaged.
Lagging == Louder(BadAt(OddAt(Stereo(58, FRAME_SIZE), 2, 120), 52), 2)
LongLagging == [Lagging EXCEPT !.n = 116]

\* The lists of files the mixers explored are constructed from.
MixerFiles ==
    { <<>>,
      <<Stereo(3, FRAME_SIZE)>>,
      <<Mono(3, 480)>>,
      <<Mono(3, FRAME_SIZE)>>,
      <<BadAt(Stereo(5, FRAME_SIZE), 3)>>,
      <<BadAt(Stereo(3, FRAME_SIZE), 3)>>,
      <<BadAt(Stereo(6, 480), 3)>>,
      <<Stereo(2, FRAME_SIZE), Stereo(4, 480)>>,
      <<ErrAt(Stereo(4, FRAME_SIZE), 4, TRUE), Stereo(4, FRAME_SIZE)>>,
      <<Stereo(4, FRAME_SIZE), ErrAt(Stereo(4, FRAME_SIZE), 4, FALSE)>>,
      <<Stereo(58, FRAME_SIZE), Louder(Stereo(116, 480), 2)>>,
      <<Stereo(116, FRAME_SIZE), LongLagging>>,
      <<Stereo(116, FRAME_SIZE), Lagging>>,
      <<Stereo(58, FRAME_SIZE), Lagging, Lagging>> }

\* A mixer has been constructed from some files.
InitMix ==
    /\ InitRing
    /\ source = [is_running |-> FALSE, mixer |-> TRUE]
    /\ files \in MixerFiles
    /\ mixer = MixerNew(files)
    /\ mix = MixIdle

\* A call of mix_next_samples().  After an index out of bounds the module
\* has trapped, and from a seek that hangs it never returns: no further call
\* is taken.
MixNextWithin(max_calls) ==
    /\ mix.calls < max_calls
    /\ mix.result \notin {"panic", "hang"}
    /\ \E r \in {MixNextSamples(mixer, files)} :
          /\ mixer' = r.mixer
          /\ mix' = [mix EXCEPT
                       !.calls = @ + 1, !.result = r.result, !.acc = r.acc,
                       !.synced = mixer.active_streams > 0 /\ SyncDue(mixer),
                       !.window = mixer.target_granule - mixer.last_sync_check,
                       !.tick = 1 - @,
                       !.spread = IF SyncCompares(mixer)
                                  THEN MaxPos(mixer) - MinPos(mixer) ELSE -1,
                       !.sought = @ \ {r.acc.contrib[j].s : j \in 1..Len(r.acc.contrib)}]
    /\ op' = "mix"
    /\ UNCHANGED <<ring_buffer, ret, stored_at, entry, accepted, consumed, out,
                   clears, orderVars, source, turns, proc, files>>
    /\ UNCHANGED engineVars

MixNext == MixNextWithin(MaxMixCalls)

\* A call of OpusSource::reset(), that is of AudioMixer::seek_to_timestamp().
ResetWithin(max_resets) ==
    /\ mix.resets < max_resets
    /\ mix.result \notin {"panic", "hang"}
    /\ \E r \in {MixerSeek(mixer, files, 1, <<>>)} :
          /\ mixer' = r.mixer
          /\ mix' = [mix EXCEPT !.resets = @ + 1, !.result = r.result,
                                !.acc = LoopStart, !.synced = FALSE,
                                !.spread = -1,
                                !.tick = 1 - @,
                                !.sought = 1..Len(r.found), !.found = r.found]
    /\ op' = "reset"
    /\ UNCHANGED <<ring_buffer, ret, stored_at, entry, accepted, consumed, out,
                   clears, orderVars, source, turns, proc, files>>
    /\ UNCHANGED engineVars

\* reset() is explored after the first frame and after the first sync check.
ResetCalls == {3, 55}
Reset == mix.calls \in ResetCalls /\ ResetWithin(MaxResets)

NextMix ==
    \/ MixNext
    \/ Reset

SpecMix == InitMix /\ [][NextMix]_vars

\* ------------------------------------------------------------ SpecPlay
\* Number of direct mix_next_samples() calls explored next to process().
MaxPlayMixCalls == 2

\* Sample counts requested from process(): one worklet quantum (one frame)
\* and a little more than two frames.
PlayLens == {128, FRAME_SIZE * 2 + 1}

\* A file without OpusHead and OpusTags packets.
Headerless(n, dur) == [OpusFile(2, n, dur) EXCEPT !.head = FALSE, !.tags = FALSE]

\* The lists of files played.
PlayFiles ==
    { <<>>,
      <<Stereo(3, FRAME_SIZE)>>,
      <<Stereo(5, FRAME_SIZE)>>,
      <<Stereo(2, FRAME_SIZE), Stereo(4, 480)>>,
      <<BadAt(Stereo(4, FRAME_SIZE), 3)>>,
      <<Headerless(2, FRAME_SIZE)>> }

\* Whether process() writes what mix_next_samples() returned.
MixYieldsAlways(result) == TRUE
MixYields(result) == result = "frame"

\* The frame loop of process() over the mixer: the ring buffer and the
\* mixer afterwards, the samples written and whether the module trapped,
\* with the number of mix_next_samples() calls made (mixed) and the counts
\* write() returned (writes).
\* PlayFrames takes the next frame from the mixer, PlayFrame decides on what
\* mix_next_samples() returned (r) and PlayWritten on what write() stored.
RECURSIVE PlayFrames(_, _, _, _, _)
RECURSIVE PlayFrame(_, _, _, _, _)
RECURSIVE PlayWritten(_, _, _, _, _, _)
PlayWritten(after, r, fs, base, frames, samples_written) ==
    IF samples_written < MixedLen
    THEN [ring_buffer |-> after, mixer |-> r.mixer, total |-> samples_written,
          result |-> r.result, mixed |-> 1, writes |-> <<samples_written>>]
    ELSE [PlayFrames(after, r.mixer, fs, base + samples_written, frames - 1)
             EXCEPT !.total = samples_written + @, !.mixed = @ + 1,
                    !.writes = <<samples_written>> \o @]

PlayFrame(rb, r, fs, base, frames) ==
    IF r.result = "panic"
    THEN [ring_buffer |-> rb, mixer |-> r.mixer, total |-> 0, result |-> "panic",
          mixed |-> 1, writes |-> <<>>]
    ELSE IF MixYields(r.result)
    THEN CHOOSE done \in
            { PlayWritten(after, r, fs, base, frames,
                          ToWrite(MixedLen, rb.write_ptr, rb.read_ptr)) :
                 after \in {RbWrite(rb, base, MixedLen)} } : TRUE
    ELSE [ring_buffer |-> rb, mixer |-> r.mixer, total |-> 0, result |-> r.result,
          mixed |-> 1, writes |-> <<>>]

PlayFrames(rb, m, fs, base, frames) ==
    IF frames = 0
    THEN [ring_buffer |-> rb, mixer |-> m, total |-> 0, result |-> "done",
          mixed |-> 0, writes |-> <<>>]
    ELSE CHOOSE done \in
            { PlayFrame(rb, r, fs, base, frames) : r \in {MixNextSamples(m, fs)} } : TRUE

\* OpusSource::process(num_samples) on a running source over its mixer.
PlayProcess(rb, m, fs, base, num_samples) ==
    LET updated == RbUpdateReadPtr(rb)
        available_samples == AvailWrite(updated.write_ptr, updated.read_ptr)
    IN PlayFrames(updated, m, fs, base, FramesToProcess(num_samples, available_samples))

\* The source is running over a mixer constructed from some files.
InitPlay ==
    /\ InitRing
    /\ source = [is_running |-> TRUE, mixer |-> TRUE]
    /\ files \in PlayFiles
    /\ mixer = MixerNew(files)
    /\ mix = MixIdle

\* The part of process(n) that follows its early return.
PlayTurn(n) ==
    /\ mix.result \notin {"panic", "hang"}
    /\ \E r \in {PlayProcess(ring_buffer, mixer, files, accepted, n)} :
          /\ ring_buffer' = r.ring_buffer
          /\ mixer' = r.mixer
          /\ proc' = [n |-> n, ret |-> r.total]
          /\ accepted' = accepted + r.total
          /\ mix' = [mix EXCEPT !.result = r.result, !.tick = 1 - @,
                                !.turn = [mixed |-> r.mixed, writes |-> r.writes]]
    /\ op' = "process"
    /\ UNCHANGED <<ret, stored_at, entry, consumed, out, clears, orderVars, source,
                   turns, files>>
    /\ UNCHANGED engineVars

\* A call of process(n) of the running source.
Play(n) == source.is_running /\ source.mixer /\ PlayTurn(n)

\* A direct call of mix_next_samples().
PlayMix == MixNextWithin(MaxPlayMixCalls)

NextPlay ==
    \/ \E n \in PlayLens : Play(n)
    \/ ConsumerRead
    \/ PlayMix

SpecPlay == InitPlay /\ [][NextPlay]_vars

\* process() is called again and again, and the consumer, which runs on its
\* own thread, reads whenever slot 0 differs from slot 1.
SpecPlayFair ==
    /\ SpecPlay
    /\ []<><<op' = "process">>_vars
    /\ WF_vars(ConsumerRead)

\* ------------------------------------------------------------ SpecDrain
\* process() of a running source over the real mixer, with a consumer that
\* takes part of what is available, so that the read index trails the write
\* index by varying amounts and both wrap.
\* Number of samples the consumer takes in one behaviour.
MaxConsumed == 3000

\* The file played: long enough for the write index to wrap.
DrainFiles == { <<Stereo(7, FRAME_SIZE)>> }

\* Sample counts requested from process(): one frame and five frames.
DrainLens == {FRAME_SIZE, 4000}

\* Sample counts the consumer takes at a time.
TakeLens == {1000, FRAME_SIZE * CHANNELS}

InitDrain ==
    /\ InitRing
    /\ source = [is_running |-> TRUE, mixer |-> TRUE]
    /\ files \in DrainFiles
    /\ mixer = MixerNew(files)
    /\ mix = MixIdle

\* The consumer reads k of the samples between its read index (slot 0) and
\* the published write index (slot 1) and publishes its new read index,
\* which stays in 0 .. BUFFER_SIZE - 1 and does not pass the write index.
ConsumerTake(k) ==
    LET r == GetIndex(ring_buffer.buffer_view, 0)
        w == GetIndex(ring_buffer.buffer_view, 1)
        upto == (r + k) % BUFFER_SIZE
    IN /\ k <= AvailRead(w, r)
       /\ consumed + k <= MaxConsumed
       /\ out' = CellsRead(ring_buffer.buffer_view, r, upto)
       /\ consumed' = consumed + k
       /\ ring_buffer' = [ring_buffer EXCEPT
                             !.buffer_view = SetIndex(@, 0, AsF32(upto))]
       /\ op' = "consume"
       /\ UNCHANGED <<ret, stored_at, entry, accepted, clears>>
       /\ UNCHANGED <<orderVars, sourceVars>>
       /\ UNCHANGED engineVars

NextDrain ==
    \/ \E n \in DrainLens : Play(n)
    \/ \E k \in TakeLens : ConsumerTake(k)

SpecDrain == InitDrain /\ [][NextDrain]_vars

\* ------------------------------------------------------------ SpecReplay
\* process() of a running source over the real mixer, with reset() between
\* the turns, and the consumer.
\* Number of reset() calls explored in one behaviour.
MaxReplayResets == 1

\* The lists of files played.
ReplayFiles ==
    { <<Stereo(3, FRAME_SIZE)>>,
      <<Stereo(2, FRAME_SIZE), Stereo(4, 480)>>,
      <<Headerless(2, FRAME_SIZE)>>,
      <<Stereo(2, FRAME_SIZE), [Stereo(2, FRAME_SIZE) EXCEPT !.tags = FALSE]>> }

\* Sample count requested from process(): two frames.
ReplayLens == {FRAME_SIZE + 1}

InitReplay ==
    /\ InitRing
    /\ source = [is_running |-> TRUE, mixer |-> TRUE]
    /\ files \in ReplayFiles
    /\ mixer = MixerNew(files)
    /\ mix = MixIdle

NextReplay ==
    \/ \E n \in ReplayLens : Play(n)
    \/ ResetWithin(MaxReplayResets)
    \/ ConsumerRead

SpecReplay == InitReplay /\ [][NextReplay]_vars

\* ------------------------------------------------------------ SpecRun
\* Number of load_file() calls explored.
MaxLoads == 1

\* The files loaded.
RunFiles == { <<Stereo(3, FRAME_SIZE)>>, <<Stereo(5, 480)>> }

\* Sample counts requested from process().
RunLens == {128, FRAME_SIZE + 1}

\* load_file(file): a mixer over the one file, starting at 0.0, replaces
\* the one there was.
LoadFiles ==
    /\ mix.loads < MaxLoads
    /\ \E fs \in RunFiles :
          /\ files' = fs
          /\ mixer' = MixerNew(fs)
    /\ mix' = [MixIdle EXCEPT !.loads = mix.loads + 1]
    /\ source' = [source EXCEPT !.mixer = TRUE]
    /\ op' = "load_file"
    /\ UNCHANGED <<ring_buffer, histRest, orderVars, turns, proc, engineVars>>

\* A call of process(n) in whatever state the source is.
Run(n) ==
    IF Idle(source)
    THEN /\ proc' = [n |-> n, ret |-> 0]
         /\ op' = "process"
         /\ UNCHANGED <<ring_buffer, histRest, orderVars, source, turns, mixVars,
                        engineVars>>
    ELSE PlayTurn(n)

NextRun ==
    \/ LoadFiles
    \/ Start
    \/ Stop
    \/ \E n \in RunLens : Run(n)

SpecRun == Init /\ [][NextRun]_vars

\* ------------------------------------------------------------ SpecSeek
\* Numbers of mix_next_samples() and of seek calls explored around a seek.
MaxSeekMixCalls == 4
MaxSeekResets == 2

\* A file whose pages have bytes bytes each.
Paged(f, bytes) == [f EXCEPT !.page_bytes = bytes]

\* The files sought: a ten-second file, files of a few pages above and below
\* the 4096 bytes at which the bisection stops, and files of small and of
\* large pages.
SeekFiles ==
    { <<Stereo(500, FRAME_SIZE)>>,
      <<Stereo(10, FRAME_SIZE)>>,
      <<Stereo(3, FRAME_SIZE)>>,
      <<Stereo(2, FRAME_SIZE)>>,
      <<Paged(Stereo(50, FRAME_SIZE), 300)>>,
      <<Paged(Stereo(10, 480), 4000)>> }

\* The start timestamps sought to, in milliseconds.
SeekStarts == {0, 100, 250, 4000}

\* A mixer has been constructed from one file and a start timestamp.
InitSeek ==
    /\ InitRing
    /\ source = [is_running |-> FALSE, mixer |-> TRUE]
    /\ files \in SeekFiles
    /\ \E start_ms \in SeekStarts : mixer = MixerNewAt(files, start_ms)
    /\ mix = MixIdle

SeekMix == MixNextWithin(MaxSeekMixCalls)
SeekReset == ResetWithin(MaxSeekResets)

NextSeek ==
    \/ SeekMix
    \/ SeekReset

SpecSeek == InitSeek /\ [][NextSeek]_vars

\* ------------------------------------------------------------ SpecEngine
\* Numbers of init() calls and of command calls explored.
MaxInits == 1
MaxEngineCalls == 3

\* Frequencies passed to set_frequency().
Frequencies == {440, 880}

\* A command call returns: the engine and the posted messages become those
\* of r, and a start or setFrequency command accepted before initialization
\* is remembered in host.early.
Returned(name, r, queued) ==
    /\ engine' = r.engine
    /\ posted' = r.posted
    /\ host' = [host EXCEPT !.calls = @ + 1, !.ret = r.ret, !.resuming = FALSE,
                            !.suspended = (name = "suspend" /\ ~engine.is_initialized),
                            !.early = IF queued = <<>> THEN @ ELSE @ \o queued,
                            !.refused = IF r.ret = "err" THEN @ \cup {name} ELSE @]
    /\ op' = name
    /\ UNCHANGED <<ring_buffer, histRest, orderVars, sourceVars>>

Callable == host.calls < MaxEngineCalls /\ ~host.resuming

CallInit ==
    /\ host.inits < MaxInits /\ ~host.resuming
    /\ \E loaded \in BOOLEAN :
         \E r \in {EngineInit(engine, posted, host.inits + 1, loaded)} :
            /\ engine' = r.engine
            /\ posted' = r.posted
            /\ host' = [host EXCEPT !.inits = @ + 1, !.ret = r.ret,
                                    !.replies = IF loaded THEN @ \cup {host.inits + 1}
                                                ELSE @]
    /\ op' = "init"
    /\ UNCHANGED <<ring_buffer, histRest, orderVars, sourceVars>>

\* The worker's "initialized" message arrives.
OnInitialized ==
    \E w \in host.replies, usable \in BOOLEAN :
       \E r \in {EngineOnInitialized(engine, posted, usable)} :
          /\ engine' = r.engine
          /\ posted' = r.posted
          /\ host' = [host EXCEPT !.replies = @ \ {w}]
          /\ op' = "initialized"
          /\ UNCHANGED <<ring_buffer, histRest, orderVars, sourceVars>>

CallSetFrequency ==
    /\ Callable
    /\ \E frequency \in Frequencies :
          Returned("set_frequency", EngineSetFrequency(engine, posted, frequency),
                   IF engine.is_initialized THEN <<>>
                   ELSE <<PendingSetFrequency(frequency)>>)

\* resume() up to its await; context.resume() may throw at once.
CallResume ==
    /\ Callable
    /\ \/ Returned("resume", [engine |-> engine, posted |-> posted, ret |-> "err"], <<>>)
       \/ /\ host' = [host EXCEPT !.resuming = TRUE]
          /\ op' = "resume_await"
          /\ UNCHANGED <<engine, posted, ring_buffer, histRest, orderVars, sourceVars>>

\* The promise of context.resume() settles and resume() runs to its end.
ResumeSettled ==
    /\ host.resuming
    /\ \/ Returned("resume", [engine |-> engine, posted |-> posted, ret |-> "err"], <<>>)
       \/ Returned("resume", EngineResume(engine, posted),
                   IF engine.is_initialized THEN <<>> ELSE <<PendingStart>>)

CallSendAudioFiles ==
    Callable /\ Returned("send_audio_files", EngineSendAudioFiles(engine, posted), <<>>)

CallReset ==
    Callable /\ Returned("engine_reset", EngineReset(engine, posted), <<>>)

CallSuspend ==
    Callable /\ Returned("suspend", EngineSuspend(engine, posted), <<>>)

NextEngine ==
    \/ CallInit
    \/ OnInitialized
    \/ CallSetFrequency
    \/ CallResume
    \/ ResumeSettled
    \/ CallSendAudioFiles
    \/ CallReset
    \/ CallSuspend

SpecEngine == Init /\ [][NextEngine]_vars

\* ------------------------------------------------------------ SpecStream
\* Numbers of process_next_packet() and seek_to_timestamp() calls explored
\* on one stream.
MaxPackets == 8
MaxStreamSeeks == 1

\* A file whose OpusTags packet precedes its OpusHead packet.
TagsFirst(f) == [f EXCEPT !.swapped = TRUE]

\* The files the stream is constructed from.
StreamFiles ==
    { <<Stereo(3, FRAME_SIZE)>>,
      <<Mono(3, 480)>>,
      <<BadAt(Stereo(3, FRAME_SIZE), 2)>>,
      <<ErrAt(Stereo(3, FRAME_SIZE), 4, TRUE)>>,
      <<Paged(Stereo(6, FRAME_SIZE), 1500)>>,
      <<Headerless(2, FRAME_SIZE)>>,
      <<TagsFirst(Stereo(2, FRAME_SIZE))>>,
      <<[Stereo(2, FRAME_SIZE) EXCEPT !.tags = FALSE]>>,
      <<[Stereo(2, FRAME_SIZE) EXCEPT !.head = FALSE]>> }

\* Timestamps sought, in milliseconds.
StreamSeeks == {0, 40}

InitStream ==
    /\ InitRing
    /\ source = [is_running |-> FALSE, mixer |-> TRUE]
    /\ files \in StreamFiles
    /\ mixer = MixerNew(files)
    /\ mix = MixIdle

\* A call of process_next_packet() on the stream.  What it returned is kept
\* in mix.result and, for Some(k), as a contribution of k samples.
NextPacket ==
    /\ mix.calls < MaxPackets
    /\ mix.result # "hang"
    /\ \E r \in {ProcessNextPacket(mixer.streams[1], files[1])} :
          /\ mixer' = [mixer EXCEPT !.streams[1] = r.st]
          /\ mix' = [mix EXCEPT
                       !.calls = @ + 1, !.result = r.res,
                       !.acc = [LoopStart EXCEPT !.contrib =
                                  IF r.res = "some"
                                  THEN <<[s |-> 1, k |-> r.n]>> ELSE <<>>]]
    /\ op' = "packet"
    /\ UNCHANGED <<ring_buffer, histRest, orderVars, source, turns, proc, files,
                   engineVars>>

\* A call of seek_to_timestamp(target_timestamp) on the stream.
StreamSeek ==
    /\ mix.resets < MaxStreamSeeks
    /\ mix.result # "hang"
    /\ \E ms \in StreamSeeks :
         \E r \in {SeekStream(mixer.streams[1], files[1], ms)} :
            /\ mixer' = [mixer EXCEPT !.streams[1] = r.st]
            /\ mix' = [mix EXCEPT !.resets = @ + 1, !.result = r.res,
                                  !.acc = LoopStart, !.found = <<r.found>>]
    /\ op' = "seek"
    /\ UNCHANGED <<ring_buffer, histRest, orderVars, source, turns, proc, files,
                   engineVars>>

NextStream ==
    \/ NextPacket
    \/ StreamSeek

SpecStream == InitStream /\ [][NextStream]_vars

\* ------------------------------------------------------------ views
read_ptr == ring_buffer.read_ptr
write_ptr == ring_buffer.write_ptr
slot0 == GetIndex(ring_buffer.buffer_view, 0)
slot1 == GetIndex(ring_buffer.buffer_view, 1)

\* The sample cells of two views are the same.
SameCells(v1, v2) ==
    \A p \in DOMAIN v1 :
        \/ v1[p] = v2[p]
        \/ \A o \in 0..(PAGE - 1) :
              p * PAGE + o >= METADATA_SIZE => v1[p][o] = v2[p][o]

\* ------------------------------------------------------------ claims
\* C1: whenever the consumer has read up to the published write index, what
\* it obtained is exactly the samples accepted by write() and not consumed
\* before, in acceptance order: none twice, none skipped.
C1_Fifo ==
    op = "consume" =>
        /\ consumed = accepted
        /\ out = [i \in 1..Len(out) |-> consumed - Len(out) + i]

\* C2: the samples accepted by write() and not yet consumed never exceed
\* BUFFER_SIZE - 1, whether or not the consumer reads.
C2_AtMostCapacityInFlight ==
    accepted - consumed <= BUFFER_SIZE - 1

\* C3: in every reachable state 0 <= available_read() <= BUFFER_SIZE - 1 and
\* available_read() + available_write() = BUFFER_SIZE - 1.
C3_AvailableSum ==
    /\ 0 <= available_read
    /\ available_read <= BUFFER_SIZE - 1
    /\ available_read + available_write = BUFFER_SIZE - 1

\* C3 witness: the producer's indices are wrapped (write below read) with
\* samples to read.
C3_Witness ==
    /\ write_ptr < read_ptr
    /\ available_read > 0
    /\ op = "write"

\* C4: write() returns min(len, available_write at entry), never more than
\* len or than the free space, performs exactly that many stores, and they
\* are the first samples of the slice: the i-th targeted cell holds the i-th
\* sample of the slice, or a later one of the same call stored over it.
C4_WriteReturnsMin ==
    op = "write" =>
        LET wp == entry[1]
            rp == entry[2]
            len == entry[3]
        IN /\ ret = Min(len, AvailWrite(wp, rp))
           /\ ret <= len
           /\ ret <= AvailWrite(wp, rp)
           /\ Len(stored_at) = ret
           /\ \A i \in 1..ret :
                 GetIndex(ring_buffer.buffer_view, stored_at[i])
                     \in (accepted - ret + i)..accepted

\* C4 witness: a partial write (the slice is longer than the free space).
C4_Witness ==
    /\ op = "write"
    /\ 0 < ret
    /\ ret < entry[3]

\* C5: after write() returns k the write index is (old + k) mod BUFFER_SIZE,
\* the i-th accepted sample went to cell (old + i) mod BUFFER_SIZE, and
\* available_read() grew by exactly k.
C5_ModularAdvance ==
    op = "write" =>
        LET wp == entry[1]
            rp == entry[2]
        IN /\ write_ptr = (wp + ret) % BUFFER_SIZE
           /\ \A i \in 1..ret :
                 stored_at[i] = ((wp + i - 1) % BUFFER_SIZE) + METADATA_SIZE
           /\ AvailRead(write_ptr, rp) = AvailRead(wp, rp) + ret

\* C6: the write index is an integer in [0, BUFFER_SIZE), the same in the
\* local atomic and in shared slot 1, and every sample store of write()
\* targets a slot in [METADATA_SIZE, METADATA_SIZE + BUFFER_SIZE).
C6_WriteIndexInRange ==
    /\ 0 <= write_ptr
    /\ write_ptr < BUFFER_SIZE
    /\ slot1 = write_ptr
    /\ op = "write" =>
          \A i \in 1..Len(stored_at) :
              /\ METADATA_SIZE <= stored_at[i]
              /\ stored_at[i] < METADATA_SIZE + BUFFER_SIZE

\* C6 witness: after a clear(), a write has filled the buffer and left the
\* write index at its largest value, BUFFER_SIZE - 1.
C6_Witness ==
    /\ clears > 0
    /\ op = "write"
    /\ ret > 0
    /\ write_ptr = BUFFER_SIZE - 1

\* C7: update_read_ptr() leaves the local read index equal to the value in
\* shared slot 0 and changes neither the write index nor the shared view.
C7_UpdateReadPtr ==
    [][op' = "update_read_ptr" =>
          /\ ring_buffer'.read_ptr = slot0
          /\ ring_buffer'.write_ptr = write_ptr
          /\ ring_buffer'.buffer_view = ring_buffer.buffer_view]_vars

\* C7 witness: update_read_ptr() has picked up a read index the consumer
\* published after reading samples.
C7_Witness ==
    /\ op = "update_read_ptr"
    /\ read_ptr > 0
    /\ read_ptr = slot0
    /\ consumed > 0

\* C8 (as stated): slot 0 is stored by no producer operation but clear(),
\* and slot 1 and the sample cells only by write().
C8_OnlyWriteStoresSlot1 ==
    [][/\ slot0' # slot0 => op' \in {"clear", "consume"}
       /\ slot1' # slot1 => op' = "write"
       /\ ~SameCells(ring_buffer.buffer_view, ring_buffer'.buffer_view)
              => op' = "write"]_vars

\* C8 (amended): slot 0 is stored by no producer operation but clear(),
\* slot 1 only by write() and clear(), the sample cells only by write().
C8_Ownership ==
    [][/\ slot0' # slot0 => op' \in {"clear", "consume"}
       /\ slot1' # slot1 => op' \in {"write", "clear"}
       /\ ~SameCells(ring_buffer.buffer_view, ring_buffer'.buffer_view)
              => op' = "write"]_vars

\* C8 witness: clear() has reset slot 1 after a write had advanced it.
C8_Witness ==
    /\ op = "clear"
    /\ ret > 0
    /\ slot1 = 0
    /\ slot0 = 0

\* Cell x is among the cells from read index r up to write index w.
Covers(r, w, x) == AvailRead(x, r) < AvailRead(w, r)

\* C9: in every write() call all the sample stores happen before the new
\* write index is stored into slot 1, so a consumer that loaded a write
\* index published by a call still in progress covers no cell that this
\* call has yet to store.
C9_StoresBeforePublish ==
    /\ (pc # "idle" /\ call.published) => call.i = call.to_write
    /\ (consumer.pc = "loaded" /\ pc # "idle" /\ consumer.by = call.id) =>
          \A j \in call.i..(call.to_write - 1) :
              ~Covers(consumer.read, consumer.write, BufferIdx(call.wp, j))

\* C9 witness: the consumer holds a write index published by a write() that
\* has not returned yet.
C9_Witness ==
    /\ consumer.pc = "loaded"
    /\ pc = "hwm"
    /\ consumer.by = call.id
    /\ call.to_write > 1
    /\ consumer.write # consumer.read

\* No whole frame fits: process() finds no available frame.
Full == available_write \div (FRAME_SIZE * 2) = 0

\* Turns after which a running source has filled the buffer.
FillTurns == BUFFER_SIZE \div MixedLen

\* C10: with a running source whose mixer always yields and a consumer that
\* never reads, the buffer is full after FillTurns turns, which is at most
\* BUFFER_SIZE / 2; it stays full, and every process() call from then on
\* returns 0 and leaves the write index, local and in slot 1, unchanged.
C10_Backpressure ==
    /\ FillTurns <= BUFFER_SIZE \div 2
    /\ [](turns >= FillTurns => Full)
    /\ [][Full => Full']_vars
    /\ [][(op' = "process" /\ Full) =>
             /\ proc'.ret = 0
             /\ ring_buffer'.write_ptr = write_ptr
             /\ GetIndex(ring_buffer'.buffer_view, 1) = slot1]_vars

\* C10 witness: a running source was asked for samples after the buffer had
\* filled and returned 0.
C10_Witness ==
    /\ op = "process"
    /\ source.is_running /\ source.mixer
    /\ turns > FillTurns
    /\ Full
    /\ proc.n > 0
    /\ proc.ret = 0
    /\ accepted > 0

\* ------------------------------------------------------------ mixer claims
\* C11: on a mixer constructed from zero streams every mix_next_samples()
\* call returns None and leaves the whole mixer as it was, and every
\* process(n) of the running producer returns 0 and stores nothing in the
\* ring buffer: the sample cells, the write index and slot 1 stay as they are.
C11_EmptyMix ==
    [][Len(files) = 0 =>
         /\ mixer' = mixer
         /\ op' = "mix" => mix'.result = "none"
         /\ op' = "process" =>
               /\ proc'.ret = 0
               /\ ring_buffer'.write_ptr = ring_buffer.write_ptr
               /\ ring_buffer'.buffer_view = ring_buffer.buffer_view
               /\ accepted' = accepted]_vars

\* A process(n) asking for more than two frames has returned 0 on the empty
\* mixer after two direct mix_next_samples() calls returned None.
C11_Witness ==
    /\ Len(files) = 0
    /\ mix.calls = MaxPlayMixCalls
    /\ mix.result = "none"
    /\ op = "process"
    /\ proc.n > 2 * FRAME_SIZE
    /\ proc.ret = 0


\* C12: when every file holds finitely many packets, none of them unreadable,
\* process() is called again and again and the consumer keeps draining,
\* active_streams eventually reaches 0, and from then on every
\* mix_next_samples() returns None and every process() returns 0.
C12_EventuallyEndOfMix ==
    /\ <>(mixer.active_streams = 0)
    /\ [][mixer.active_streams = 0 =>
            /\ mixer'.active_streams = 0
            /\ op' = "mix" => mix'.result = "none"
            /\ op' = "process" => proc'.ret = 0]_vars

\* C13: when reading the next Ogg packet of one stream fails during
\* mix_next_samples(), that stream is marked finished and active_streams is
\* decremented, the call itself does not fail, and what earlier streams
\* contributed in the same call is returned as a frame.
C13_ReadErrorIsolated ==
    [][mix'.acc.end = "err" =>
         /\ mixer'.stream_finished[mix'.acc.at]
         /\ mixer'.active_streams = mixer.active_streams - 1
         /\ mix'.result # "err"
         /\ mix'.acc.samples_mixed => mix'.result = "frame"]_vars

\* C14: when one audio packet of a stream fails to decode, exactly that
\* packet is dropped: total_samples_decoded and current_granule_position keep
\* their values, the reader stands before the packet that follows the failed
\* one, and the stream stays unfinished when such a packet exists.
C14_OnlyFailedPacketDropped ==
    [][\A s \in mix'.acc.undecoded :
          /\ mixer'.streams[s].total_samples_decoded
                = mixer.streams[s].total_samples_decoded
          /\ mixer'.streams[s].current_granule_position
                = mixer.streams[s].current_granule_position
          /\ mixer'.streams[s].reader = mixer.streams[s].reader + 1
          /\ ~AtEnd(files[s], mixer.streams[s].reader + 1)
                => ~mixer'.stream_finished[s]]_vars

\* The sum of |decoded_s[i]| over the streams that contributed to slot i of
\* the frame returned last.
RECURSIVE SumAbs(_, _)
SumAbs(j, i) ==
    IF j > Len(mix.acc.contrib) THEN 0
    ELSE LET c == mix.acc.contrib[j]
         IN (IF i < c.count THEN Abs(mixer.streams[c.s].decoded_buffer[i]) ELSE 0)
            + SumAbs(j + 1, i)

\* C15: in every returned frame, |mixed[i]| is at most the sum of
\* |decoded_s[i]| over the contributing streams divided by active_streams.
C15_NoAmplification ==
    mix.result = "frame" =>
        \A i \in DOMAIN mixer.mixed_buffer :
            Abs(mixer.mixed_buffer[i]) * mixer.active_streams <= SumAbs(1, i) * MIX_ONE

\* C16: after a sync check that fired, the drift_compensation of every
\* stream lies in [1 - 0.02, 1 + 0.02].
C16_CompensationBounded ==
    mix.synced =>
        \A s \in DOMAIN mixer.streams :
            /\ mixer.streams[s].drift_compensation * ADJ_INV >= COMP_ONE * (ADJ_INV - 1)
            /\ mixer.streams[s].drift_compensation * ADJ_INV <= COMP_ONE * (ADJ_INV + 1)

\* What slot i of the mixed buffer receives from contribution c when a mono
\* stream is duplicated across both output channels.
UpmixedTerm(c, i) ==
    LET st == mixer.streams[c.s]
        share == c.comp * (SHARE_UNIT \div c.active)
    IN IF st.channel_count = 1
       THEN IF i < 2 * c.k THEN st.decoded_buffer[i \div 2] * share ELSE 0
       ELSE IF i < c.count THEN st.decoded_buffer[i] * share ELSE 0

RECURSIVE SumUpmixed(_, _)
SumUpmixed(j, i) ==
    IF j > Len(mix.acc.contrib) THEN 0
    ELSE UpmixedTerm(mix.acc.contrib[j], i) + SumUpmixed(j + 1, i)

MonoContributed ==
    \E j \in 1..Len(mix.acc.contrib) :
        mixer.streams[mix.acc.contrib[j].s].channel_count = 1

\* C18: when a mono stream decodes k samples in a call, the call returns a
\* frame in which mixed[2j] and mixed[2j + 1] both received
\* decoded[j] * drift_compensation / active_streams for every j < k.
C18_MonoUpmixed ==
    MonoContributed =>
        /\ mix.result = "frame"
        /\ \A i \in DOMAIN mixer.mixed_buffer :
               mixer.mixed_buffer[i] = SumUpmixed(1, i)

\* C17: max_sync_drift never decreases over mix_next_samples() and reset()
\* calls, and after a sync check that compared more than one unfinished
\* stream it is at least (max_pos - min_pos) / 48000.
C17_MaxSyncDriftMonotone ==
    [][/\ mixer'.max_sync_drift >= mixer.max_sync_drift
       /\ (op' = "mix" /\ SyncCompares(mixer)) =>
              mixer'.max_sync_drift >= MaxPos(mixer) - MinPos(mixer)]_vars

\* After a reset, a second sync check has compared two streams that lie
\* closer together than at the first check: the earlier maximum is kept.
C17_Witness ==
    /\ mix.resets > 0
    /\ mix.synced
    /\ mix.spread > 0
    /\ mixer.max_sync_drift > mix.spread

\* C19: the first frame a stream decodes after a seek to start_timestamp
\* leaves its current_granule_position within one frame of
\* start_timestamp * 48000.
C19_SeekLandsNearTarget ==
    [][\A s \in mix.sought :
          (op' = "mix" /\ s \notin mix'.sought) =>
              Abs(mixer'.streams[s].current_granule_position
                  - TargetGranule(mixer.start_timestamp)) <= FRAME_SIZE]_vars

\* C20: after the bisection over a file longer than 4096 bytes that holds a
\* page with 0 <= granule <= target, the page at best_position and the
\* recorded last_granule have a granule position of at most the target.
C20_SeekChoosesDominatedPage ==
    op = "reset" =>
        \A s \in 1..Len(mix.found) :
            LET f == files[s]
                target == TargetGranule(mixer.start_timestamp)
                page == mix.found[s].best_position \div f.page_bytes
            IN (FileSize(f) > BISECT_STOP
                /\ \E j \in 0..(NPackets(f) - 1) :
                       PageGranule(f, j) >= 0 /\ PageGranule(f, j) <= target)
               => /\ PageGranule(f, page) <= target
                  /\ mix.found[s].last_granule <= target

\* The message that replays a pending operation to worker w.
MessageOf(pending, w) ==
    IF pending.op = "Start" THEN Message(w, "start", 0)
    ELSE Message(w, "setFrequency", pending.frequency)

\* C21: a resume() or set_frequency() that returns before initialization
\* posts nothing; the "initialized" handler that sets is_initialized posts
\* the commands accepted so far once each, in the order they were issued,
\* and leaves pending_operations empty; once initialized, every resume() and
\* set_frequency() posts its message at once and queues nothing.
C21_QueuedThenReplayed ==
    [][/\ (op' \in {"set_frequency", "resume"} /\ ~engine'.is_initialized)
            => posted' = posted
       /\ (op' = "initialized" /\ ~engine.is_initialized /\ engine'.is_initialized)
            => /\ posted' = posted \o [i \in 1..Len(host.early) |->
                                          MessageOf(host.early[i], engine.worker)]
               /\ engine'.pending_operations = <<>>
       /\ (op' \in {"set_frequency", "resume"} /\ engine.is_initialized
             /\ host'.ret = "ok")
            => /\ Len(posted') = Len(posted) + 1
               /\ posted'[Len(posted')].type
                     = (IF op' = "resume" THEN "start" ELSE "setFrequency")
               /\ engine'.pending_operations = <<>>]_vars

\* The handler has just replayed a start and a setFrequency command, after
\* the "init" message.
C21_Witness ==
    /\ op = "initialized"
    /\ engine.is_initialized
    /\ Len(host.early) = 2
    /\ host.early[1].op # host.early[2].op
    /\ Len(posted) = 3

\* C22: pending_operations never holds more than two entries.
C22_PendingAtMostTwo == Len(engine.pending_operations) <= 2

\* C23: send_audio_files() and reset() called before initialization return an
\* error, post nothing and leave pending_operations as it was; what the
\* "initialized" handler posts is start and setFrequency messages only.
C23_OnlyStartAndFrequencyQueued ==
    [][/\ (op' \in {"send_audio_files", "engine_reset"} /\ ~engine.is_initialized)
            => /\ host'.ret = "err"
               /\ posted' = posted
               /\ engine' = engine
       /\ op' = "initialized"
            => \A i \in (Len(posted) + 1)..Len(posted') :
                  posted'[i].type \in {"start", "setFrequency"}]_vars

\* Both commands were refused, a command was queued, and initialization has
\* completed since.
C23_Witness ==
    /\ op = "initialized"
    /\ engine.is_initialized
    /\ host.refused = {"send_audio_files", "engine_reset"}
    /\ Len(host.early) = 1
    /\ Len(posted) = 2

\* Sum of the counts in a sequence.
RECURSIVE SumSeq(_)
SumSeq(q) == IF q = <<>> THEN 0 ELSE Head(q) + SumSeq(Tail(q))

\* The most frames a process(n) turn may take: the frames asked for, capped
\* by the whole frames that fit once the read index in slot 0 was taken over.
TurnLimit(n) ==
    LET fit == AvailWrite(ring_buffer.write_ptr, AsUsize(slot0)) \div (2 * FRAME_SIZE)
        asked == (n + FRAME_SIZE - 1) \div FRAME_SIZE
    IN Min(asked, fit)

\* C24: a process(n) turn of a running source with a mixer takes over the
\* read index first, calls mix_next_samples() at most
\* min(ceil(n / FRAME_SIZE), available_write \div (2 * FRAME_SIZE)) times,
\* writes every frame it got, ends with the first write that is not whole or
\* the first call that yields no frame, and returns the sum of what the
\* writes returned.
C24_ProcessTurn ==
    [][(op' = "process" /\ mix'.result # "panic") =>
          LET turn == mix'.turn
              limit == TurnLimit(proc'.n)
              stalled == mix'.result \in {"none", "err"}
          IN /\ ring_buffer'.read_ptr = AsUsize(slot0)
             /\ turn.mixed <= limit
             /\ Len(turn.writes) = turn.mixed - (IF stalled THEN 1 ELSE 0)
             /\ \A i \in 1..(Len(turn.writes) - 1) : turn.writes[i] = MixedLen
             /\ turn.mixed < limit =>
                   \/ stalled
                   \/ turn.writes[Len(turn.writes)] < MixedLen
             /\ proc'.ret = SumSeq(turn.writes)
             /\ accepted' = accepted + proc'.ret]_vars

\* A turn asked for three frames, wrote two and ended on a call without a
\* frame.
C24_Witness ==
    /\ op = "process"
    /\ mix.turn.mixed = 3
    /\ mix.turn.writes = <<MixedLen, MixedLen>>
    /\ mix.result = "none"
    /\ proc.ret = 2 * MixedLen

\* C25: process() on a source that is not running, or that has no mixer,
\* returns 0 and leaves the ring buffer, with its indices and cells, and the
\* mixer with its streams as they were; start() and stop() change is_running
\* and nothing else.
C25_IdleProcess ==
    [][/\ (op' = "process" /\ (~source.is_running \/ ~source.mixer))
            => /\ proc'.ret = 0
               /\ ring_buffer' = ring_buffer
               /\ mixer' = mixer
               /\ files' = files
               /\ source' = source
       /\ op' \in {"start", "stop"}
            => /\ source' = [source EXCEPT !.is_running = (op' = "start")]
               /\ ring_buffer' = ring_buffer
               /\ mixer' = mixer
               /\ files' = files]_vars

\* process() was called on a stopped source whose mixer has frames left and
\* whose ring buffer holds samples.
C25_Witness ==
    /\ op = "process"
    /\ ~source.is_running
    /\ source.mixer
    /\ proc.ret = 0
    /\ accepted > consumed
    /\ mixer.active_streams > 0
    /\ mixer.streams[1].reader <= NPackets(files[1])

\* Whether an OpusHead packet, and whether an OpusHead and later an OpusTags
\* packet, lie before packet p of file f.
HeadBefore(f, p) == \E h \in 1..(p - 1) : Kind(f, h) = "head"
HeadThenTagsBefore(f, p) ==
    \E h \in 1..(p - 1) : \E t \in (h + 1)..(p - 1) :
       Kind(f, h) = "head" /\ Kind(f, t) = "tags"

\* C26: in every state comments_processed implies header_processed and a
\* decoder exists only when both are set; on a stream never sought the flags
\* are set only once an OpusHead and then an OpusTags packet were read;
\* process_next_packet() returns Some only on a stream that had its decoder,
\* and the decoder appears in the very call that sets comments_processed.
C26_HeaderStateMachine ==
    /\ [](LET st == mixer.streams[1]
          IN /\ st.comments_processed => st.header_processed
             /\ st.decoder # 0 => (st.header_processed /\ st.comments_processed)
             /\ mix.resets = 0 =>
                   /\ st.header_processed => HeadBefore(files[1], st.reader)
                   /\ st.comments_processed => HeadThenTagsBefore(files[1], st.reader))
    /\ [][op' = "packet" =>
            /\ mix'.result = "some" =>
                  /\ mixer.streams[1].decoder # 0
                  /\ mixer.streams[1].header_processed
                  /\ mixer.streams[1].comments_processed
            /\ (mixer.streams[1].decoder = 0 /\ mixer'.streams[1].decoder # 0)
                  <=> (~mixer.streams[1].comments_processed
                       /\ mixer'.streams[1].comments_processed)]_vars

\* A file whose OpusTags packet precedes its OpusHead packet was read to its
\* end: the OpusHead packet was accepted, no OpusTags packet after it, and
\* every call returned None.
C26_Witness ==
    /\ op = "packet"
    /\ mix.result = "none"
    /\ files[1].swapped
    /\ mixer.streams[1].header_processed
    /\ ~mixer.streams[1].comments_processed
    /\ mixer.streams[1].reader > NPackets(files[1])
    /\ mixer.streams[1].total_samples_decoded = 0

\* C27: process_next_packet() returning Some(k) adds k to
\* total_samples_decoded and to current_granule_position; any other return
\* leaves both as they were.
C27_CountersFollowDecodes ==
    [][op' = "packet" =>
          LET before == mixer.streams[1]
              after == mixer'.streams[1]
              k == IF mix'.result = "some" THEN mix'.acc.contrib[1].k ELSE 0
          IN /\ after.total_samples_decoded = before.total_samples_decoded + k
             /\ after.current_granule_position = before.current_granule_position + k]_vars

\* The third audio packet was decoded, after calls that returned None for
\* the header packets and for the undecodable second audio packet.
C27_Witness ==
    /\ op = "packet"
    /\ mix.result = "some"
    /\ mixer.streams[1].current_granule_position = 2 * FRAME_SIZE
    /\ files[1].bad_at = 2

\* Drift of unfinished stream s from the average position of the unfinished
\* streams, in samples, as check_sync() computes it.
DriftOf(m, s) == Pos(m, s) - (SumPos(m, Unfinished(m)) \div Cardinality(Unfinished(m)))

\* C28: after a mix_next_samples() call whose sync check fired, every
\* unfinished stream whose drift was at most 1 ms in absolute value has
\* drift_compensation 1.0; a single unfinished stream, whose drift is 0, has
\* it whatever it was before.
C28_SmallDriftResets ==
    [][(op' = "mix" /\ mix'.synced) =>
          \A s \in Unfinished(mixer) :
             Abs(DriftOf(mixer, s)) * 1000 <= SAMPLE_RATE
                => mixer'.streams[s].drift_compensation = COMP_ONE]_vars

\* The unfinished streams of m that are at most one frame past the
\* least position of an unfinished stream.
Due(m) == {s \in Unfinished(m) : Pos(m, s) <= MinPos(m) + FRAME_SIZE}

\* C29: a mix_next_samples() call on a mixer with active streams calls
\* process_next_packet(), in construction order, on exactly the unfinished
\* streams whose position is at most the least unfinished position plus
\* FRAME_SIZE, so on at least one stream.
C29_DueStreamsAttempted ==
    [][(op' = "mix" /\ mixer.active_streams > 0) =>
          LET tried == mix'.acc.tried
          IN /\ \A i \in 1..(Len(tried) - 1) : tried[i] < tried[i + 1]
             /\ {tried[i] : i \in 1..Len(tried)} = Due(mixer)
             /\ tried # <<>>]_vars

\* C30: target_granule at the end of a mix_next_samples() call is never
\* smaller than at the end of the call before; a call that returns a frame
\* ends with the least unfinished position at its start plus FRAME_SIZE.
C30_TargetGranuleAdvances ==
    [][(op' = "mix" /\ mix.calls >= 1) =>
          /\ mixer'.target_granule >= mixer.target_granule
          /\ mix'.result = "frame" =>
                mixer'.target_granule = MinGranule(mixer) + FRAME_SIZE]_vars

\* The streams a loop of mix_next_samples() mixed samples of.
Contributors(acc) == {acc.contrib[j].s : j \in 1..Len(acc.contrib)}

\* C31: active_streams is the number of streams whose stream_finished flag
\* is false; a stream becomes finished only in a mix_next_samples() call
\* whose process_next_packet() on it gave no samples, with both headers
\* processed and its reader at the end of the file; a finished stream stays
\* finished and is not passed to process_next_packet() again, and
\* active_streams never increases.
C31_ActiveCountsUnfinished ==
    [][/\ mixer.active_streams = Cardinality(Unfinished(mixer))
       /\ mixer'.active_streams = Cardinality(Unfinished(mixer'))
       /\ mixer'.active_streams <= mixer.active_streams
       /\ \A s \in DOMAIN mixer.streams :
             /\ mixer.stream_finished[s] =>
                   /\ mixer'.stream_finished[s]
                   /\ op' = "mix" =>
                         \A i \in 1..Len(mix'.acc.tried) : mix'.acc.tried[i] # s
             /\ (~mixer.stream_finished[s] /\ mixer'.stream_finished[s]) =>
                   /\ op' = "mix"
                   /\ \E i \in 1..Len(mix'.acc.tried) : mix'.acc.tried[i] = s
                   /\ s \notin Contributors(mix'.acc)
                   /\ mixer'.streams[s].header_processed
                   /\ mixer'.streams[s].comments_processed
                   /\ AtEnd(files[s], mixer'.streams[s].reader)]_vars

\* A mixer over two files after a call that found one of them finished.
C31_Witness ==
    /\ op = "mix"
    /\ Len(files) = 2
    /\ mixer.active_streams = 1
    /\ Cardinality(Unfinished(mixer)) = 1
    /\ mix.acc.tried # <<>>

\* The lifetime metrics of the ring buffer object.
Metrics(rb) ==
    <<rb.total_writes, rb.total_reads, rb.total_samples_written,
      rb.total_samples_read, rb.total_underruns,
      rb.high_water_mark_read, rb.high_water_mark_write>>

\* C32: after clear() the read and write indices of the object and the
\* shared slots 0 and 1 are zero, available_read() is 0 and
\* available_write() is BUFFER_SIZE - 1, and the metric counters and
\* high-water marks are what they were.
C32_ClearResetsIndices ==
    [][op' = "clear" =>
          /\ ring_buffer'.read_ptr = 0
          /\ ring_buffer'.write_ptr = 0
          /\ GetIndex(ring_buffer'.buffer_view, 0) = 0
          /\ GetIndex(ring_buffer'.buffer_view, 1) = 0
          /\ AvailRead(ring_buffer'.write_ptr, ring_buffer'.read_ptr) = 0
          /\ AvailWrite(ring_buffer'.write_ptr, ring_buffer'.read_ptr)
                = BUFFER_SIZE - 1
          /\ Metrics(ring_buffer') = Metrics(ring_buffer)]_vars

\* clear() has just run on a buffer that had been written to and whose
\* consumer had read.
C32_Witness ==
    /\ op = "clear"
    /\ ring_buffer.total_samples_written > 0
    /\ ring_buffer.high_water_mark_read > 0
    /\ consumed > 0

\* C33: Oscillator::process(n) first takes the consumer's read index from
\* slot 0; when running it generates and writes min(n, available_write())
\* samples and returns that count; when not running it returns 0 and leaves
\* the write index, the sample cells and the phase as they were.
C33_OscillatorProcess ==
    [][op' = "osc_process" =>
          LET rp == AsUsize(GetIndex(ring_buffer.buffer_view, 0))
              wp == ring_buffer.write_ptr
              count == Min(proc'.n, AvailWrite(wp, rp))
          IN /\ ring_buffer'.read_ptr = rp
             /\ source.is_running =>
                   /\ proc'.generated = count
                   /\ proc'.ret = count
                   /\ ring_buffer'.total_samples_written
                         = ring_buffer.total_samples_written + count
                   /\ source'.phase = AdvancePhase(source, source.phase, count)
             /\ ~source.is_running =>
                   /\ proc'.ret = 0
                   /\ ring_buffer'.write_ptr = wp
                   /\ GetIndex(ring_buffer'.buffer_view, 1)
                         = GetIndex(ring_buffer.buffer_view, 1)
                   /\ SameCells(ring_buffer'.buffer_view, ring_buffer.buffer_view)
                   /\ source'.phase = source.phase]_vars

\* A running oscillator was asked for more than the buffer could take,
\* after the consumer had read.
C33_Witness ==
    /\ op = "osc_process"
    /\ source.is_running
    /\ consumed > 0
    /\ proc.ret > 0
    /\ proc.ret < proc.n

\* A stopped oscillator with samples in its buffer was asked for samples.
C33_WitnessStopped ==
    /\ op = "osc_process"
    /\ ~source.is_running
    /\ accepted > consumed
    /\ proc.ret = 0

\* C34: in a mix_next_samples() call every frame of k samples decoded from a
\* mono or stereo stream is mixed with all indices in range: the k * CHANNELS
\* entries read lie within the stream's decoded buffer of
\* FRAME_SIZE * channels entries and within the mixed buffer of
\* FRAME_SIZE * CHANNELS entries, so no call ends in an index out of bounds.
C34_MixIndicesInBounds ==
    [][op' = "mix" =>
          /\ \A j \in 1..Len(mix'.acc.contrib) :
                LET c == mix'.acc.contrib[j]
                IN /\ files[c.s].channels \in {1, 2}
                   /\ c.k <= FRAME_SIZE
                   /\ c.k * CHANNELS <= FRAME_SIZE * files[c.s].channels
                   /\ c.k * CHANNELS <= FRAME_SIZE * CHANNELS
          /\ mix'.result # "panic"]_vars

\* C35: every write() issued by OpusSource::process stores the whole mixed
\* frame of 2 * FRAME_SIZE samples, so that process() returns a multiple of
\* 2 * FRAME_SIZE, whatever the read and write indices, with a consumer
\* whose read index stays in range and behind the write index.
C35_WholeFramesOnly ==
    [][op' = "process" =>
          LET writes == mix'.turn.writes
          IN /\ \A i \in 1..Len(writes) : writes[i] = MixedLen
             /\ proc'.ret = Len(writes) * MixedLen
             /\ proc'.ret % (2 * FRAME_SIZE) = 0]_vars

\* A turn that asked for five frames wrote fewer, all whole, because of the
\* space left, with the write index wrapped behind the read index.
C35_Witness ==
    /\ op = "process"
    /\ proc.n = 4000
    /\ mix.result = "done"
    /\ mix.turn.writes # <<>>
    /\ Len(mix.turn.writes) < 5
    /\ ring_buffer.write_ptr < ring_buffer.read_ptr

\* C36: at the end of every mix_next_samples() call each unfinished stream
\* is at most 2 * FRAME_SIZE samples past the least position of an
\* unfinished stream, and the spread max_pos - min_pos a sync check observes
\* is at most 2 * FRAME_SIZE samples, that is 2 * FRAME_SIZE / 48000 seconds.
C36_PositionsWithinTwoFrames ==
    [][op' = "mix" =>
          /\ \A s \in Unfinished(mixer') :
                Pos(mixer', s) <= MinPos(mixer') + 2 * FRAME_SIZE
          /\ mix'.spread <= 2 * FRAME_SIZE]_vars

\* A call ended with an unfinished stream exactly 2 * FRAME_SIZE samples
\* past the least position: the bound is attained.
C36_Witness ==
    /\ op = "mix"
    /\ \E s \in Unfinished(mixer) : Pos(mixer, s) = MinPos(mixer) + 2 * FRAME_SIZE

\* The sync check of a call saw its streams more than one frame apart.
C36_WitnessSpread ==
    /\ op = "mix"
    /\ mix.spread > FRAME_SIZE

\* The stream st with the fields seek_to_timestamp() is stated to change
\* taken from the stream by.
SeekTouched(st, by) ==
    [st EXCEPT !.reader = by.reader,
               !.header_processed = by.header_processed,
               !.comments_processed = by.comments_processed,
               !.decoder = by.decoder,
               !.total_samples_decoded = by.total_samples_decoded]

\* What reset() leaves alone outside the streams: the indices of the ring
\* buffer, local and shared, and every field of the mixer but its streams;
\* and a mixer without active streams that was reset still yields nothing.
ResetFrame ==
    /\ op' = "reset" =>
          /\ ring_buffer'.read_ptr = ring_buffer.read_ptr
          /\ ring_buffer'.write_ptr = ring_buffer.write_ptr
          /\ GetIndex(ring_buffer'.buffer_view, 0) = GetIndex(ring_buffer.buffer_view, 0)
          /\ GetIndex(ring_buffer'.buffer_view, 1) = GetIndex(ring_buffer.buffer_view, 1)
          /\ [mixer' EXCEPT !.streams = mixer.streams] = mixer
          /\ \A s \in DOMAIN mixer.streams :
                /\ Pos(mixer', s) = Pos(mixer, s)
                /\ mixer'.streams[s].drift_compensation
                      = mixer.streams[s].drift_compensation
    /\ (mix.resets > 0 /\ mixer.active_streams = 0) =>
          (op' = "process" => proc'.ret = 0 /\ mix'.result = "none")

\* C37: reset() changes, of each stream, only the reader's position, the
\* header flags, the decoder and total_samples_decoded; it leaves the ring
\* buffer indices, the finished flags, active_streams, target_granule,
\* last_sync_check and every stream's position and drift compensation as
\* they were, so that a mixer at the end of its mix stays there.
C37_ResetChangesOnlyCursor ==
    [][/\ ResetFrame
       /\ op' = "reset" =>
             \A s \in DOMAIN mixer.streams :
                mixer'.streams[s] = SeekTouched(mixer.streams[s], mixer'.streams[s])]_vars

\* C37 as amended: the same, with two more fields that reset() changes:
\* the OpusHead packet parsed again sets channel_count and allocates a
\* zeroed decoded buffer.
C37_ResetChangesCursorAndScratch ==
    [][/\ ResetFrame
       /\ op' = "reset" =>
             \A s \in DOMAIN mixer.streams :
                mixer'.streams[s] =
                   SeekTouched([mixer.streams[s] EXCEPT
                                   !.decoded_buffer = mixer'.streams[s].decoded_buffer,
                                   !.channel_count = mixer'.streams[s].channel_count],
                               mixer'.streams[s])]_vars

\* A source was reset after its mixer had finished all its streams, with
\* samples still in the ring buffer, and was then asked for samples: the
\* reader of a stream is back inside its file and process() returned 0.
C37_Witness ==
    /\ op = "process"
    /\ mix.resets > 0
    /\ mixer.active_streams = 0
    /\ Len(files) > 0
    /\ proc.ret = 0
    /\ accepted > consumed
    /\ \E s \in DOMAIN mixer.streams : ~AtEnd(files[s], mixer.streams[s].reader)

\* C38: seek_to_timestamp() returns on every file, also on one that ends
\* without both an OpusHead and an OpusTags packet: no reset() is left
\* inside the loop that parses the headers again.
C38_SeekTerminates ==
    [][op' = "reset" => mix'.result # "hang"]_vars

\* C39: suspend() before initialization posts nothing and leaves
\* pending_operations as it was; when suspend() was the last command before
\* the "initialized" handler sets is_initialized, the handler still posts a
\* start message for every start that a resume() had queued.
C39_SuspendKeepsQueuedStart ==
    [][/\ (op' = "suspend" /\ ~engine.is_initialized)
            => /\ posted' = posted
               /\ engine'.pending_operations = engine.pending_operations
       /\ (op' = "initialized" /\ host.suspended
             /\ ~engine.is_initialized /\ engine'.is_initialized)
            => /\ Len(posted') = Len(posted) + Len(engine.pending_operations)
               /\ \A i \in 1..Len(engine.pending_operations) :
                     engine.pending_operations[i] = PendingStart =>
                        posted'[Len(posted) + i] = Message(engine.worker, "start", 0)
               /\ \A i \in 1..Len(posted') : posted'[i].type # "stop"]_vars

\* The handler has just posted the start that a resume() had queued,
\* suspend() having been the last command before it.
C39_Witness ==
    /\ op = "initialized"
    /\ engine.is_initialized
    /\ host.suspended
    /\ host.early = <<PendingStart>>
    /\ posted = <<Message(engine.worker, "init", 0), Message(engine.worker, "start", 0)>>

====
